---- MODULE Spec2Model ----
(***************************************************************************)
(* The download-and-assembly job orchestrator of dtm-download              *)
(* (src-server/src/routes.rs, download.rs, processing.rs): the job         *)
(* registry behind its RwLock, the start_download / download_progress /    *)
(* download_file handlers, and the background task run_download_job with   *)
(* its stages download_with_progress, extract_zip and merge_to_cog.        *)
(*                                                                         *)
(* Abstractions: byte counts, speeds and ETAs of Download events are not   *)
(* modelled (an event keeps its kind, package name and status), so a run   *)
(* of throttled progress events that differ only in their counts is kept   *)
(* once; the network, the archive and the GDAL tools are the environment,  *)
(* so the outcome of each request, chunk, member and tool run is a         *)
(* nondeterministic choice among the outcomes the code distinguishes; the  *)
(* error value of a failed job is only printed and is not kept.            *)
(***************************************************************************)
EXTENDS Integers, Sequences, FiniteSets, TLC

(* ------------------------------ bounds -------------------------------- *)

\* Packages in the download request of a job that runs alone (SpecJob).
MaxPkgs == 3

\* Bytes of the remote resource of a download_with_progress call.
MaxSize == 3

\* broadcast::channel(64): the channel keeps the last 64 events for its
\* receivers. The ring of the model keeps the last Capacity events; the
\* claims depend on the number only through which receiver is more than
\* that many events behind.
Capacity == 3

\* The largest number of members of an archive.
MaxMembers == 2

\* MAX_RECORD_COUNT: the page size of query_by_extent, 2000 in the
\* program; pages of the model hold this many features.
MaxRecordCount == 2

\* The largest number of features of the remote index.
MaxFeatures == 5

\* The largest length of a string given to sanitize_for_path.
MaxName == 3

\* The concurrent handler invocations.
StartReqs == {"s1", "s2"}
ProgressReqs == {"p1"}
FileReqs == {"f1"}

\* Uuid::new_v4 is modelled as a fresh identifier: the k-th call returns k.
JobIds == 1 .. Cardinality(StartReqs)
\* An identifier a client sends that no start_download call generates.
UnknownId == Cardinality(StartReqs) + 1

NoOne == "none"

\* The package lists of the requests: n packages with alternating names
\* (A, B, A, ...: distinct neighbours, a name coming back later), or n
\* packages of one name.
Alternating(n) == [k \in 1 .. n |-> IF k % 2 = 1 THEN "A" ELSE "B"]
Same(n) == [k \in 1 .. n |-> "A"]
PackageLists(n) == {Alternating(k) : k \in 0 .. n} \cup {Same(k) : k \in 0 .. n}

\* The request bodies when several handlers run (Spec): one call carries
\* no package or one, the other none.
Bodies(r) == IF r = "s1" THEN {<<>>, <<"A">>} ELSE {<<>>}

(* ------------------------------- state -------------------------------- *)

VARIABLES
    uuids,      \* how many identifiers Uuid::new_v4 has generated
    downloads,  \* AppState.downloads: download id -> DownloadJob
    writer,     \* RwLock<AppState>: the handler holding the write guard
    readers,    \* RwLock<AppState>: the handlers holding a read guard
    sd,         \* the start_download calls
    dp,         \* the download_progress calls
    df,         \* the download_file calls
    task,       \* the spawned background tasks (run_download_job), by id
    sent,       \* by id, the events handed to the job's broadcast Sender
    calls,      \* by id, the stage calls and returns of the task, in order
    output,     \* by id, the file at the job's output_path
    dl,         \* one download_with_progress call with its file and server
    ex,         \* extract_zip calls on one archive and output directory
    ck,         \* package_cache_key calls on two packages
    ru,         \* two jobs, one after the other, on the cache of one package
    mg,         \* one run_download_job call with the data it hands to merge_to_cog
    qp,         \* one query_by_extent call and the remote index it pages through
    rc          \* two download_with_progress calls at once on one zip path

vars == <<uuids, downloads, writer, readers, sd, dp, df, task, sent, calls, output, dl, ex, ck, ru, mg, qp, rc>>

(* ------------------------------ events -------------------------------- *)

\* ProgressEvent::Download: pkg is the position of the package in the
\* request (not a field of the event; kept to state the ordering claims).
DownloadEv(i, name, status) ==
    [kind |-> "Download", pkg |-> i, package_name |-> name, status |-> status,
     percentage |-> -1, output_filename |-> <<>>]

ProcessingEv(stage, pct) ==
    [kind |-> "Processing", pkg |-> 0, package_name |-> "", status |-> stage,
     percentage |-> pct, output_filename |-> <<>>]

CompleteEv(filename) ==
    [kind |-> "Complete", pkg |-> 0, package_name |-> "", status |-> "",
     percentage |-> -1, output_filename |-> filename]

ErrorEv(message) ==
    [kind |-> "Error", pkg |-> 0, package_name |-> "", status |-> message,
     percentage |-> -1, output_filename |-> <<>>]

FetchStatuses == {"downloading", "resuming", "completed", "already downloaded"}
ExtractStatuses == {"Extracting...", "already extracted"}

(* ----------------------------- registry ------------------------------- *)

\* The first 8 characters of the id: distinct ids may share them.
Prefix8(id) == (id + 1) \div 2

\* (mutant) every job is given the channel of the first job.
DownloadJob_SharedBus(id) ==
    [output_path |-> <<"dtm-downloads", id, Prefix8(id)>>,
     filename |-> <<"dtm_output", Prefix8(id)>>,
     sender |-> 1]

\* DownloadJob as start_download builds it.
DownloadJob(id) ==
    [output_path |-> <<"dtm-downloads", id, Prefix8(id)>>,
     filename |-> <<"dtm_output", Prefix8(id)>>,
     sender |-> id]

\* (mutant) the map is rebuilt with the new entry alone.
RegistryInsert_Replace(d, id, j) == [k \in {id} |-> j]

\* HashMap::insert.
RegistryInsert(d, id, j) ==
    [k \in DOMAIN d \cup {id} |-> IF k = id THEN j ELSE d[k]]

\* (mutant) a missing key falls back to some registered job.
RegistryGet_Fallback(d, id) ==
    IF id \in DOMAIN d THEN <<d[id]>>
    ELSE IF DOMAIN d = {} THEN <<>>
    ELSE <<d[CHOOSE k \in DOMAIN d : TRUE]>>

\* HashMap::get followed by the read of the job slot: an Option, <<job>>
\* for Some(job) and <<>> for None.
RegistryGet(d, id) == IF id \in DOMAIN d THEN <<d[id]>> ELSE <<>>

\* (mutant) a write guard is granted while read guards are held.
CanWrite_NoExclusion == writer = NoOne

\* RwLock::write resolves when no guard is held; RwLock::read when no
\* write guard is held.
CanWrite == writer = NoOne /\ readers = {}
CanRead == writer = NoOne

(* ------------------------------ Init ---------------------------------- *)

\* No download_with_progress call is looked at.
IdleFetch == [pc |-> "idle"]
\* No call of the other operations either.
Idle == [pc |-> "idle"]

IdleTask == [pc |-> "none", phase |-> "", i |-> 0,
             packages |-> <<>>, tiffs |-> <<>>, result |-> ""]

Init ==
    /\ uuids = 0
    /\ downloads = <<>>
    /\ writer = NoOne
    /\ readers = {}
    /\ sd = [r \in StartReqs |-> [pc |-> 1, id |-> UnknownId, packages |-> <<>>, result |-> ""]]
    /\ dp = [q \in ProgressReqs |-> [pc |-> "idle", id |-> UnknownId, result |-> "", sender |-> 0,
                                 next |-> 0, first |-> 0, got |-> <<>>]]
    /\ df = [f \in FileReqs |-> [pc |-> "idle", id |-> UnknownId, result |-> "", job |-> <<>>,
                             body |-> "", filename |-> <<>>]]
    /\ task = [j \in JobIds |-> IdleTask]
    /\ sent = [j \in JobIds |-> <<>>]
    /\ calls = [j \in JobIds |-> <<>>]
    /\ output = [j \in JobIds |-> "absent"]
    /\ dl = IdleFetch
    /\ ex = Idle
    /\ ck = Idle
    /\ ru = Idle
    /\ mg = Idle
    /\ qp = Idle
    /\ rc = Idle

(* --------------------------- start_download --------------------------- *)

\* (mutant) the task is spawned before the job is registered.
SdOrder_SpawnFirst == <<"create", "spawn", "write", "insert", "return">>

\* The order of the steps of start_download: the job is built, the write
\* guard is taken, the job is inserted and the guard dropped, the task is
\* spawned, the id is returned.
SdOrder == <<"create", "write", "insert", "spawn", "return">>

SdAt(r, step) == sd[r].pc \in DOMAIN SdOrder /\ SdOrder[sd[r].pc] = step
SdDone(r) == sd[r].pc > Len(SdOrder)

\* The ids start_download has handed to a caller.
ReturnedIds == {sd[r].id : r \in {x \in StartReqs : sd[x].result = "ok"}}

\* uuid, work dir, cache dirs, output path, channel, DownloadJob.
start_download_create(r, pkgs) ==
    /\ SdAt(r, "create")
    /\ uuids < Cardinality(JobIds)
    /\ uuids' = uuids + 1
    /\ sd' = [sd EXCEPT ![r] = [@ EXCEPT !.pc = @ + 1, !.id = uuids + 1, !.packages = pkgs]]
    /\ UNCHANGED <<dl, ex, ck, ru, mg, qp, rc, downloads, writer, readers, dp, df, task, sent, calls, output>>

\* create_dir_all fails: the handler returns Err and registers nothing.
start_download_create_fail(r) ==
    /\ SdAt(r, "create")
    /\ uuids < Cardinality(JobIds)
    /\ uuids' = uuids + 1
    /\ sd' = [sd EXCEPT ![r] = [@ EXCEPT !.pc = Len(SdOrder) + 1, !.result = "err"]]
    /\ UNCHANGED <<dl, ex, ck, ru, mg, qp, rc, downloads, writer, readers, dp, df, task, sent, calls, output>>

\* state.write().await
start_download_write(r) ==
    /\ SdAt(r, "write")
    /\ CanWrite
    /\ writer' = r
    /\ sd' = [sd EXCEPT ![r].pc = @ + 1]
    /\ UNCHANGED <<dl, ex, ck, ru, mg, qp, rc, uuids, downloads, readers, dp, df, task, sent, calls, output>>

\* downloads.insert(id, job_state), then the guard goes out of scope.
start_download_insert(r) ==
    /\ SdAt(r, "insert")
    /\ writer = r
    /\ downloads' = RegistryInsert(downloads, sd[r].id, DownloadJob(sd[r].id))
    /\ writer' = NoOne
    /\ sd' = [sd EXCEPT ![r].pc = @ + 1]
    /\ UNCHANGED <<dl, ex, ck, ru, mg, qp, rc, uuids, readers, dp, df, task, sent, calls, output>>

\* tokio::spawn: the task exists and starts with its 500 ms sleep.
start_download_spawn(r) ==
    /\ SdAt(r, "spawn")
    /\ task' = [task EXCEPT ![sd[r].id] =
                   [IdleTask EXCEPT !.pc = "sleep", !.packages = sd[r].packages]]
    /\ sd' = [sd EXCEPT ![r].pc = @ + 1]
    /\ UNCHANGED <<dl, ex, ck, ru, mg, qp, rc, uuids, downloads, writer, readers, dp, df, sent, calls, output>>

\* Ok(Json(DownloadStartResponse { download_id }))
start_download_return(r) ==
    /\ SdAt(r, "return")
    /\ sd' = [sd EXCEPT ![r] = [@ EXCEPT !.pc = @ + 1, !.result = "ok"]]
    /\ UNCHANGED <<dl, ex, ck, ru, mg, qp, rc, uuids, downloads, writer, readers, dp, df, task, sent, calls, output>>

(* -------------------------- run_download_job -------------------------- *)

Stages == {"download", "extract", "merge"}

\* The head of the for loop and what follows it: the next package's
\* download, or after the last package the merge.
NextPackage(t) ==
    IF t.i < Len(t.packages)
    THEN [t EXCEPT !.pc = "download", !.phase = "probe", !.i = t.i + 1]
    ELSE [t EXCEPT !.pc = "merge", !.phase = "entry"]

\* (mutant) extract_zip is left out: the next package is fetched at once.
AfterDownloadOk_SkipExtract(t) == NextPackage(t)

\* download_with_progress returned Ok: extract_zip is called.
AfterDownloadOk(t) == [t EXCEPT !.pc = "extract", !.phase = "check"]

\* extract_zip returned Ok(files): all_tiff_files.extend(files), next round.
AfterExtractOk(t, files) == NextPackage([t EXCEPT !.tiffs = @ \o files])

\* (mutant) the error is dropped and the loop goes on.
Propagate_Continue(t, e) == NextPackage(t)

\* map_err(..)?: run_download_job returns Err(e); the spawned closure
\* prints it.
Propagate(t, e) == [t EXCEPT !.pc = "err", !.phase = "", !.result = "err"]

\* (mutant) Ok(()) without the Complete event.
AfterMergeOk_NoComplete(t) == [t EXCEPT !.pc = "ok", !.phase = "", !.result = "ok"]

\* merge_to_cog returned Ok: the Complete event is next.
AfterMergeOk(t) == [t EXCEPT !.pc = "complete", !.phase = ""]

\* The filename run_download_job puts in the Complete event, the literal
\* "dtm_output.tif": the parts of a name as in DownloadJob, without an id
\* part.
CompleteFilename == <<"dtm_output">>

\* What the task publishes when the job has failed with e.
FailureEvents(e) == <<>>

\* ProgressSender::send of a throttled progress event: one that repeats
\* the event before it, up to its counts, is not kept again.
Throttled(log, e) == IF log # <<>> /\ log[Len(log)] = e THEN <<>> ELSE <<e>>

\* (mutant) a bounded queue: send waits while a receiver of the channel
\* has Capacity events to read.
CanSend_Backpressure(j) ==
    \A q \in DOMAIN dp :
        (dp[q].pc = "streaming" /\ dp[q].sender = j) => Len(sent[j]) - dp[q].next + 1 < Capacity

\* ProgressSender::send: broadcast's send is not async and its result is
\* dropped, so a task can always send, with or without receivers.
CanSend(j) == TRUE

\* One step of task j: its new state, the events it sends, and what the
\* running stage returned ("ok", "err", or "none" when it goes on).
Step(j, t2, evs, ret) ==
    LET t == task[j]
        retlog == IF ret = "none" THEN <<>>
                  ELSE <<[what |-> ret, stage |-> t.pc, pkg |-> t.i]>>
        calllog == IF t2.pc \in Stages /\ (ret # "none" \/ t.pc = "sleep")
                   THEN <<[what |-> "call", stage |-> t2.pc, pkg |-> t2.i]>>
                   ELSE <<>>
    IN  /\ evs # <<>> => CanSend(j)
        /\ task' = [task EXCEPT ![j] = t2]
        /\ sent' = [sent EXCEPT ![j] = @ \o evs]
        /\ calls' = [calls EXCEPT ![j] = @ \o retlog \o calllog]
        /\ UNCHANGED <<dl, ex, ck, ru, mg, qp, rc, uuids, downloads, writer, readers, sd, dp, df>>

Fail(j, e) == Step(j, Propagate(task[j], e), FailureEvents(e), "err")

At(j, pc, phase) == task[j].pc = pc /\ task[j].phase = phase

\* (mutant) every event names the first package of the request.
PkgName_First(j) == task[j].packages[1]

\* pkg.package_name of the package of the current round.
PkgName(j) == task[j].packages[task[j].i]

\* The sleep is over: the loop starts.
run_download_job_start(j) ==
    /\ task[j].pc = "sleep"
    /\ Step(j, NextPackage(task[j]), <<>>, "none")
    /\ UNCHANGED output

(* download_with_progress *)

\* The local file has the probed size: one event, no transfer.
download_already(j) ==
    /\ At(j, "download", "probe")
    /\ Step(j, AfterDownloadOk(task[j]),
            <<DownloadEv(task[j].i, PkgName(j), "already downloaded")>>, "ok")
    /\ UNCHANGED output

\* The parent directory cannot be created, the GET fails, or the server
\* rejects the range request: an error before any event.
download_request_fail(j) ==
    /\ At(j, "download", "probe")
    /\ \E e \in {"DirectoryError", "HttpError", "RangeNotSupported"} : Fail(j, e)
    /\ UNCHANGED output

\* The response arrived: the first event of download_fresh ("downloading")
\* or download_resume ("resuming").
download_begin(j) ==
    /\ At(j, "download", "probe")
    /\ \E s \in {"downloading", "resuming"} :
          Step(j, [task[j] EXCEPT !.phase = "stream"],
               <<DownloadEv(task[j].i, PkgName(j), s)>>, "none")
    /\ UNCHANGED output

\* A chunk whose progress event passes the 100 ms throttle.
download_chunk(j) ==
    /\ At(j, "download", "stream")
    /\ Step(j, task[j],
            Throttled(sent[j], DownloadEv(task[j].i, PkgName(j), "downloading")), "none")
    /\ UNCHANGED output

\* File::create / open, a chunk or a write fails.
download_stream_fail(j) ==
    /\ At(j, "download", "stream")
    /\ \E e \in {"HttpError", "IoError"} : Fail(j, e)
    /\ UNCHANGED output

\* The stream ended: the "completed" event, Ok.
download_finish(j) ==
    /\ At(j, "download", "stream")
    /\ Step(j, AfterDownloadOk(task[j]),
            <<DownloadEv(task[j].i, PkgName(j), "completed")>>, "ok")
    /\ UNCHANGED output

(* extract_zip *)

\* check_extraction_complete found every member: one event, the rasters.
extract_already(j) ==
    /\ At(j, "extract", "check")
    /\ Step(j, AfterExtractOk(task[j], <<task[j].i>>),
            <<DownloadEv(task[j].i, PkgName(j), "already extracted")>>, "ok")
    /\ UNCHANGED output

\* The archive cannot be opened or the directory not created.
extract_open_fail(j) ==
    /\ At(j, "extract", "check")
    /\ \E e \in {"IoError", "ZipError", "DirectoryError"} : Fail(j, e)
    /\ UNCHANGED output

\* Full extraction starts: the 0% event.
extract_begin(j) ==
    /\ At(j, "extract", "check")
    /\ Step(j, [task[j] EXCEPT !.phase = "members"],
            <<DownloadEv(task[j].i, PkgName(j), "Extracting...")>>, "none")
    /\ UNCHANGED output

\* A member whose progress event passes the 5-point throttle.
extract_member(j) ==
    /\ At(j, "extract", "members")
    /\ Step(j, task[j],
            Throttled(sent[j], DownloadEv(task[j].i, PkgName(j), "Extracting...")), "none")
    /\ UNCHANGED output

\* A member cannot be read or written.
extract_member_fail(j) ==
    /\ At(j, "extract", "members")
    /\ \E e \in {"IoError", "ZipError", "DirectoryError"} : Fail(j, e)
    /\ UNCHANGED output

\* The last member is done: its event is always sent, then
\* Ok(extracted_files), with or without a raster among the members.
extract_finish(j) ==
    /\ At(j, "extract", "members")
    /\ \E files \in {<<>>, <<task[j].i>>} :
          Step(j, AfterExtractOk(task[j], files),
               Throttled(sent[j], DownloadEv(task[j].i, PkgName(j), "Extracting...")), "ok")
    /\ UNCHANGED output

\* An archive without members: the loop body never runs, Ok(vec![]).
extract_finish_empty(j) ==
    /\ At(j, "extract", "members")
    /\ Step(j, AfterExtractOk(task[j], <<>>), <<>>, "ok")
    /\ UNCHANGED output

(* merge_to_cog *)

merge_no_input(j) ==
    /\ At(j, "merge", "entry")
    /\ task[j].tiffs = <<>>
    /\ Fail(j, "NoInputFiles")
    /\ UNCHANGED output

merge_begin(j) ==
    /\ At(j, "merge", "entry")
    /\ task[j].tiffs # <<>>
    /\ Step(j, [task[j] EXCEPT !.phase = "predictor"],
            <<ProcessingEv("merging", 0)>>, "none")
    /\ UNCHANGED output

\* After detect_predictor_option: the 10% event, gdalwarp runs.
merge_warp_start(j) ==
    /\ At(j, "merge", "predictor")
    /\ Step(j, [task[j] EXCEPT !.phase = "warp"],
            <<ProcessingEv("merging", 10)>>, "none")
    /\ UNCHANGED output

\* gdalwarp cannot be run or exits non-zero.
merge_warp_fail(j) ==
    /\ At(j, "merge", "warp")
    /\ \E e \in {"IoError", "GdalError"} : Fail(j, e)
    /\ UNCHANGED output

\* gdalwarp succeeded: the 60% event, gdal_translate runs.
merge_warp_ok(j) ==
    /\ At(j, "merge", "warp")
    /\ Step(j, [task[j] EXCEPT !.phase = "translate"],
            <<ProcessingEv("creating_cog", 60)>>, "none")
    /\ UNCHANGED output

\* gdal_translate, while it runs, creates the file at output_path.
merge_translate_write(j) ==
    /\ At(j, "merge", "translate")
    /\ output[j] = "absent"
    /\ output' = [output EXCEPT ![j] = "partial"]
    /\ UNCHANGED <<dl, ex, ck, ru, mg, qp, rc, uuids, downloads, writer, readers, sd, dp, df, task, sent, calls>>

\* gdal_translate cannot be run or exits non-zero; what it wrote so far
\* stays, or it removes it.
merge_translate_fail(j) ==
    /\ At(j, "merge", "translate")
    /\ \E e \in {"IoError", "GdalError"} : Fail(j, e)
    /\ \E o \in {"absent", output[j]} : output' = [output EXCEPT ![j] = o]

\* gdal_translate succeeded: the output is whole, the 100% event, Ok.
merge_translate_ok(j) ==
    /\ At(j, "merge", "translate")
    /\ output[j] = "partial"
    /\ output' = [output EXCEPT ![j] = "complete"]
    /\ Step(j, AfterMergeOk(task[j]), <<ProcessingEv("completed", 100)>>, "ok")

\* sender.send(ProgressEvent::Complete { .. }); Ok(())
run_download_job_complete(j) ==
    /\ task[j].pc = "complete"
    /\ Step(j, [task[j] EXCEPT !.pc = "ok", !.result = "ok"],
            <<CompleteEv(CompleteFilename)>>, "none")
    /\ UNCHANGED output

(* -------------------------- download_progress ------------------------- *)

\* The ids a client can name: those a start_download call returned (a v4
\* uuid is not guessable before that), and ids that were never generated.
RequestIds == ReturnedIds \cup {UnknownId}

\* The request arrives and state.read().await resolves.
download_progress_read(q, id) ==
    /\ dp[q].pc = "idle"
    /\ id \in RequestIds
    /\ CanRead
    /\ readers' = readers \cup {q}
    /\ dp' = [dp EXCEPT ![q] = [@ EXCEPT !.pc = "reading", !.id = id]]
    /\ UNCHANGED <<dl, ex, ck, ru, mg, qp, rc, uuids, downloads, writer, sd, df, task, sent, calls, output>>

\* downloads.get(&id), the job's sender cloned; the guard is dropped at
\* the end of the block or by the early return.
download_progress_lookup(q) ==
    /\ dp[q].pc = "reading"
    /\ readers' = readers \ {q}
    /\ LET job == RegistryGet(downloads, dp[q].id)
       IN  dp' = [dp EXCEPT ![q] =
                    IF job = <<>>
                    THEN [@ EXCEPT !.pc = "done", !.result = "Download not found"]
                    ELSE [@ EXCEPT !.pc = "sender", !.sender = job[1].sender]]
    /\ UNCHANGED <<dl, ex, ck, ru, mg, qp, rc, uuids, downloads, writer, sd, df, task, sent, calls, output>>

\* (mutant) the receiver starts at the first event ever sent.
Subscribe_Replay(log) == 1

\* Sender::subscribe: the receiver starts at the tail of the channel, the
\* position of the next event to be sent.
Subscribe(log) == Len(log) + 1

\* (mutant) recv hands out the newest event of the channel.
Recv_Newest(log, n) ==
    IF n > Len(log) THEN <<"wait">> ELSE <<"ok", log[Len(log)]>>

\* Receiver::recv with the receiver at position n of the channel: nothing
\* to receive yet (<<"wait">>), the event at n, or Lagged when the event
\* at n has left the ring.
Recv(log, n) ==
    IF n > Len(log) THEN <<"wait">>
    ELSE IF n <= Len(log) - Capacity THEN <<"lagged">>
    ELSE <<"ok", log[n]>>

\* sender.subscribe(): a receiver on the job's channel, and the handler
\* returns the event stream.
download_progress_subscribe(q) ==
    /\ dp[q].pc = "sender"
    /\ dp' = [dp EXCEPT ![q] = [@ EXCEPT !.pc = "streaming", !.result = "ok",
                                         !.next = Subscribe(sent[dp[q].sender]),
                                         !.first = Len(sent[dp[q].sender]) + 1]]
    /\ UNCHANGED <<dl, ex, ck, ru, mg, qp, rc, uuids, downloads, writer, readers, sd, df, task, sent, calls, output>>

\* The stream is polled and rx.recv() returns Ok(event): the event is
\* yielded to the client.
download_progress_recv(q) ==
    /\ dp[q].pc = "streaming"
    /\ LET r == Recv(sent[dp[q].sender], dp[q].next)
       IN  /\ r[1] = "ok"
           /\ dp' = [dp EXCEPT ![q] = [@ EXCEPT !.next = @ + 1, !.got = Append(@, r[2])]]
    /\ UNCHANGED <<dl, ex, ck, ru, mg, qp, rc, uuids, downloads, writer, readers, sd, df, task, sent, calls, output>>

\* (mutant) Lagged is handled: the stream goes on from the oldest event
\* the channel still has.
download_progress_lagged_Resync(q) ==
    /\ dp[q].pc = "streaming"
    /\ Recv(sent[dp[q].sender], dp[q].next) = <<"lagged">>
    /\ LET log == sent[dp[q].sender]
           n == Len(log) - Capacity + 1
       IN  dp' = [dp EXCEPT ![q] = [@ EXCEPT !.next = n + 1, !.got = Append(@, log[n])]]
    /\ UNCHANGED <<dl, ex, ck, ru, mg, qp, rc, uuids, downloads, writer, readers, sd, df, task, sent, calls, output>>

\* rx.recv() returns Err(Lagged): while let Ok(..) ends the stream.
download_progress_lagged(q) ==
    /\ dp[q].pc = "streaming"
    /\ Recv(sent[dp[q].sender], dp[q].next) = <<"lagged">>
    /\ dp' = [dp EXCEPT ![q] = [@ EXCEPT !.pc = "ended"]]
    /\ UNCHANGED <<dl, ex, ck, ru, mg, qp, rc, uuids, downloads, writer, readers, sd, df, task, sent, calls, output>>

(* ---------------------------- download_file --------------------------- *)

\* The request arrives and state.read().await resolves.
download_file_read(f, id) ==
    /\ df[f].pc = "idle"
    /\ id \in RequestIds
    /\ CanRead
    /\ readers' = readers \cup {f}
    /\ df' = [df EXCEPT ![f] = [@ EXCEPT !.pc = "reading", !.id = id]]
    /\ UNCHANGED <<dl, ex, ck, ru, mg, qp, rc, uuids, downloads, writer, sd, dp, task, sent, calls, output>>

\* downloads.get(&id).cloned(), the guard dropped, then output_path and
\* filename read from the job.
download_file_lookup(f) ==
    /\ df[f].pc = "reading"
    /\ readers' = readers \ {f}
    /\ LET job == RegistryGet(downloads, df[f].id)
       IN  df' = [df EXCEPT ![f] =
                    IF job = <<>>
                    THEN [@ EXCEPT !.pc = "done", !.result = "Download not found"]
                    ELSE [@ EXCEPT !.pc = "open", !.job = job]]
    /\ UNCHANGED <<dl, ex, ck, ru, mg, qp, rc, uuids, downloads, writer, sd, dp, task, sent, calls, output>>

\* The file at a path: output paths are <work dir>/<id>/<filename>.
FileAt(path) == output[path[2]]

\* File::open(output_path): whatever is at the path is streamed back with
\* the job's filename; no file is an error.
download_file_open(f) ==
    /\ df[f].pc = "open"
    /\ LET file == FileAt(df[f].job[1].output_path)
       IN  df' = [df EXCEPT ![f] =
                    IF file = "absent"
                    THEN [@ EXCEPT !.pc = "done", !.result = "No such file"]
                    ELSE [@ EXCEPT !.pc = "done", !.result = "ok", !.body = file,
                                   !.filename = df[f].job[1].filename]]
    /\ UNCHANGED <<dl, ex, ck, ru, mg, qp, rc, uuids, downloads, writer, readers, sd, dp, task, sent, calls, output>>

(* ------------------------------- Next --------------------------------- *)

StartNext(r, lists) ==
    \/ \E pkgs \in lists : start_download_create(r, pkgs)
    \/ start_download_create_fail(r)
    \/ start_download_write(r)
    \/ start_download_insert(r)
    \/ start_download_spawn(r)
    \/ start_download_return(r)

TaskNext(j) ==
    \/ run_download_job_start(j)
    \/ download_already(j)
    \/ download_request_fail(j)
    \/ download_begin(j)
    \/ download_chunk(j)
    \/ download_stream_fail(j)
    \/ download_finish(j)
    \/ extract_already(j)
    \/ extract_open_fail(j)
    \/ extract_begin(j)
    \/ extract_member(j)
    \/ extract_member_fail(j)
    \/ extract_finish(j)
    \/ extract_finish_empty(j)
    \/ merge_no_input(j)
    \/ merge_begin(j)
    \/ merge_warp_start(j)
    \/ merge_warp_fail(j)
    \/ merge_warp_ok(j)
    \/ merge_translate_write(j)
    \/ merge_translate_fail(j)
    \/ merge_translate_ok(j)
    \/ run_download_job_complete(j)

ProgressNext(q) ==
    \/ \E id \in JobIds \cup {UnknownId} : download_progress_read(q, id)
    \/ download_progress_lookup(q)
    \/ download_progress_subscribe(q)

FileNext(f) ==
    \/ \E id \in JobIds \cup {UnknownId} : download_file_read(f, id)
    \/ download_file_lookup(f)
    \/ download_file_open(f)

\* The server: concurrent start_download, download_progress and
\* download_file calls and the tasks of the jobs.
Next ==
    \/ \E r \in StartReqs : StartNext(r, Bodies(r))
    \/ \E j \in JobIds : TaskNext(j)
    \/ \E q \in ProgressReqs : ProgressNext(q)
    \/ \E f \in FileReqs : FileNext(f)

Spec == Init /\ [][Next]_vars

\* One job on its own, from the return of its start_download call to its
\* end, with larger requests.
InitJob ==
    /\ uuids = 1
    /\ downloads = RegistryInsert(<<>>, 1, DownloadJob(1))
    /\ writer = NoOne
    /\ readers = {}
    /\ \E pkgs \in PackageLists(MaxPkgs) :
          /\ sd = [r \in StartReqs |->
                     IF r = "s1"
                     THEN [pc |-> Len(SdOrder) + 1, id |-> 1, packages |-> pkgs, result |-> "ok"]
                     ELSE [pc |-> 1, id |-> UnknownId, packages |-> <<>>, result |-> ""]]
          /\ task = [j \in JobIds |->
                       IF j = 1 THEN [IdleTask EXCEPT !.pc = "sleep", !.packages = pkgs]
                       ELSE IdleTask]
    /\ dp = [q \in ProgressReqs |-> [pc |-> "idle", id |-> UnknownId, result |-> "", sender |-> 0,
                                 next |-> 0, first |-> 0, got |-> <<>>]]
    /\ df = [f \in FileReqs |-> [pc |-> "idle", id |-> UnknownId, result |-> "", job |-> <<>>,
                                 body |-> "", filename |-> <<>>]]
    /\ sent = [j \in JobIds |-> <<>>]
    /\ calls = [j \in JobIds |-> <<>>]
    /\ output = [j \in JobIds |-> "absent"]
    /\ dl = IdleFetch
    /\ ex = Idle
    /\ ck = Idle
    /\ ru = Idle
    /\ mg = Idle
    /\ qp = Idle
    /\ rc = Idle

NextJob == \E j \in JobIds : TaskNext(j)

SpecJob == InitJob /\ [][NextJob]_vars

(* ---------------------------- the event streams ----------------------- *)

\* The clients of the event streams.
BusReqs == {"p1", "p2"}

\* The packages of the two jobs: no name in common.
BusPackages == <<Alternating(1), <<"B">>>>

\* Two jobs are registered and their start_download calls have returned.
InitBus ==
    /\ uuids = 2
    /\ downloads = RegistryInsert(RegistryInsert(<<>>, 1, DownloadJob(1)), 2, DownloadJob(2))
    /\ writer = NoOne
    /\ readers = {}
    /\ sd = [r \in StartReqs |->
               LET id == IF r = "s1" THEN 1 ELSE 2
               IN  [pc |-> Len(SdOrder) + 1, id |-> id, packages |-> BusPackages[id],
                    result |-> "ok"]]
    /\ task = [j \in JobIds |-> [IdleTask EXCEPT !.pc = "sleep", !.packages = BusPackages[j]]]
    /\ dp = [q \in BusReqs |-> [pc |-> "idle", id |-> UnknownId, result |-> "", sender |-> 0,
                                next |-> 0, first |-> 0, got |-> <<>>]]
    /\ df = [f \in FileReqs |-> [pc |-> "idle", id |-> UnknownId, result |-> "", job |-> <<>>,
                                 body |-> "", filename |-> <<>>]]
    /\ sent = [j \in JobIds |-> <<>>]
    /\ calls = [j \in JobIds |-> <<>>]
    /\ output = [j \in JobIds |-> "absent"]
    /\ dl = IdleFetch
    /\ ex = Idle
    /\ ck = Idle
    /\ ru = Idle
    /\ mg = Idle
    /\ qp = Idle
    /\ rc = Idle

\* Jobs whose packages are in the cache, publishing on their channels.
BusTaskNext(j) ==
    \/ run_download_job_start(j)
    \/ download_already(j)
    \/ extract_already(j)
    \/ merge_begin(j)
    \/ merge_warp_start(j)
    \/ merge_warp_fail(j)
    \/ merge_warp_ok(j)
    \/ merge_translate_write(j)
    \/ merge_translate_ok(j)
    \/ run_download_job_complete(j)

\* A client of the stream of a job: the handler, then the stream.
BusStreamNext(q) ==
    \/ \E id \in JobIds : download_progress_read(q, id)
    \/ download_progress_lookup(q)
    \/ download_progress_subscribe(q)
    \/ download_progress_recv(q)
    \/ download_progress_lagged(q)

NextBus ==
    \/ \E j \in JobIds : BusTaskNext(j)
    \/ \E q \in BusReqs : BusStreamNext(q)

SpecBus == InitBus /\ [][NextBus]_vars

(* ----------------------- download_with_progress ----------------------- *)

\* One call of download_with_progress on its own: the remote resource is
\* a sequence of bytes, the destination is absent or holds bytes, the
\* server answers each request in one of the ways the code tells apart.

sysvars == <<uuids, downloads, writer, readers, sd, dp, df, task, sent, calls, output>>

\* The remote resource: byte k of it is k.
RemoteBody(n) == [k \in 1 .. n |-> k]
\* Bytes left by something else than this resource.
StaleBytes(n) == [k \in 1 .. n |-> 0]

\* The destination before the call: <<exists, bytes>>.
LocalFiles(remote) ==
    {<<FALSE, <<>>>>}
        \cup {<<TRUE, SubSeq(remote, 1, m)>> : m \in 0 .. Len(remote)}
        \cup {<<TRUE, StaleBytes(m)>> : m \in 1 .. MaxSize + 1}

\* The state of a call at its start, for a remote resource and a
\* destination <<exists, bytes>>.
FetchCall(remote, local) ==
    [pc |-> "start",
     remote |-> remote,
     exists |-> local[1], file |-> local[2],
     exists0 |-> local[1], file0 |-> local[2],
     expected_size |-> 0,
     path |-> "",
     requests |-> <<>>,
     status |-> "",
     response |-> <<>>, body |-> <<>>,
     downloaded |-> 0, total_bytes |-> 0,
     events |-> <<>>,
     result |-> ""]

InitFetch ==
    /\ uuids = 0
    /\ downloads = <<>>
    /\ writer = NoOne
    /\ readers = {}
    /\ sd = [r \in StartReqs |-> [pc |-> 1, id |-> UnknownId, packages |-> <<>>, result |-> ""]]
    /\ dp = [q \in ProgressReqs |-> [pc |-> "idle", id |-> UnknownId, result |-> "", sender |-> 0,
                                     next |-> 0, first |-> 0, got |-> <<>>]]
    /\ df = [f \in FileReqs |-> [pc |-> "idle", id |-> UnknownId, result |-> "", job |-> <<>>,
                                 body |-> "", filename |-> <<>>]]
    /\ task = [j \in JobIds |-> IdleTask]
    /\ sent = [j \in JobIds |-> <<>>]
    /\ calls = [j \in JobIds |-> <<>>]
    /\ output = [j \in JobIds |-> "absent"]
    /\ \E n \in 0 .. MaxSize : \E local \in LocalFiles(RemoteBody(n)) :
          dl = FetchCall(RemoteBody(n), local)
    /\ ex = Idle
    /\ ck = Idle
    /\ ru = Idle
    /\ mg = Idle
    /\ qp = Idle
    /\ rc = Idle

\* DownloadProgressEvent, without speed and ETA.
FetchEv(status, downloaded, total, pct) ==
    [status |-> status, bytes_downloaded |-> downloaded, total_bytes |-> total,
     percentage |-> pct]

\* (downloaded / total_bytes) * 100.0, or 0.0 when the total is unknown;
\* kept to the whole percent.
Percentage(downloaded, total) ==
    IF total > 0 THEN (downloaded * 100) \div total ELSE 0

\* (mutant) no test of the expected size against 0.
IsDownloadComplete_NoZeroTest(d) == d.exists /\ Len(d.file) = d.expected_size

\* is_download_complete(zip_path, expected_size)
IsDownloadComplete(d) ==
    IF d.expected_size = 0 THEN FALSE
    ELSE d.exists /\ Len(d.file) = d.expected_size

\* partial_size: metadata(output_path).len(), or 0
PartialSize(d) == IF d.exists THEN Len(d.file) ELSE 0

SupportsRange(d) == d.expected_size > 0 /\ PartialSize(d) > 0

\* (mutant) any non-empty file is resumed.
ChoosePath_ResumeAny(d) ==
    IF IsDownloadComplete(d) THEN "short"
    ELSE IF SupportsRange(d) THEN "resume"
    ELSE "fresh"

\* Which of the three paths download_with_progress takes.
ChoosePath(d) ==
    IF IsDownloadComplete(d) THEN "short"
    ELSE IF SupportsRange(d) /\ PartialSize(d) < d.expected_size THEN "resume"
    ELSE "fresh"

Failed(d, e) == [d EXCEPT !.pc = "done", !.result = e]

\* (mutant) a rejected range request falls back to a fresh fetch.
RangeRejected_Fallback(d) ==
    [d EXCEPT !.pc = "fresh", !.exists = FALSE, !.file = <<>>]

\* !response.status().is_success(): Err(RangeNotSupported)
RangeRejected(d) == Failed(d, "RangeNotSupported")

\* create_dir_all(parent) fails.
download_with_progress_mkdir_fail ==
    /\ dl.pc = "start"
    /\ dl' = Failed(dl, "DirectoryError")
    /\ UNCHANGED <<sysvars, ex, ck, ru, mg, qp, rc>>

\* get_expected_size(url).await.unwrap_or(0): the HEAD request gives the
\* size of the resource, or fails or gives none.
download_with_progress_probe ==
    /\ dl.pc = "start"
    /\ \E size \in {0, Len(dl.remote)} :
          dl' = [dl EXCEPT !.pc = "choose", !.expected_size = size,
                           !.requests = Append(@, <<"HEAD">>)]
    /\ UNCHANGED <<sysvars, ex, ck, ru, mg, qp, rc>>

\* is_download_complete: one event and Ok(()).
download_with_progress_complete ==
    /\ dl.pc = "choose"
    /\ ChoosePath(dl) = "short"
    /\ dl' = [dl EXCEPT !.pc = "done", !.path = "short", !.result = "ok",
                        !.events = Append(@, FetchEv("already downloaded", dl.expected_size,
                                                     dl.expected_size, 100))]
    /\ UNCHANGED <<sysvars, ex, ck, ru, mg, qp, rc>>

\* supports_range && partial_size < expected_size: download_resume.
download_with_progress_resume ==
    /\ dl.pc = "choose"
    /\ ChoosePath(dl) = "resume"
    /\ dl' = [dl EXCEPT !.pc = "resume", !.path = "resume"]
    /\ UNCHANGED <<sysvars, ex, ck, ru, mg, qp, rc>>

\* Otherwise a non-empty file is removed and download_fresh is called.
download_with_progress_fresh ==
    /\ dl.pc = "choose"
    /\ ChoosePath(dl) = "fresh"
    /\ dl' = [dl EXCEPT !.pc = "fresh", !.path = "fresh",
                        !.exists = IF PartialSize(dl) > 0 THEN FALSE ELSE @,
                        !.file = IF PartialSize(dl) > 0 THEN <<>> ELSE @]
    /\ UNCHANGED <<sysvars, ex, ck, ru, mg, qp, rc>>

\* download_resume: GET with Range: bytes=<partial_size>-. The request
\* fails, the server rejects it, answers 206 with the rest of the
\* resource, or ignores the header and answers 200 with all of it.
download_resume_request ==
    /\ dl.pc = "resume"
    /\ LET d == [dl EXCEPT !.requests = Append(@, <<"GET", "Range", PartialSize(dl)>>)]
           rest == SubSeq(dl.remote, PartialSize(dl) + 1, Len(dl.remote))
       IN  \/ dl' = Failed(d, "HttpError")
           \/ dl' = RangeRejected([d EXCEPT !.status = "rejected"])
           \/ \E st \in {"206", "200"} :
                 LET resp == IF st = "206" THEN rest ELSE dl.remote
                 IN  dl' = [d EXCEPT !.pc = "resume_open", !.status = st,
                                     !.response = resp, !.body = resp,
                                     !.downloaded = PartialSize(dl),
                                     !.total_bytes = dl.expected_size,
                                     !.events = Append(@, FetchEv("resuming", PartialSize(dl),
                                                  dl.expected_size,
                                                  Percentage(PartialSize(dl), dl.expected_size)))]
    /\ UNCHANGED <<sysvars, ex, ck, ru, mg, qp, rc>>

\* OpenOptions::new().write(true).open, seek(SeekFrom::End(0))
download_resume_open ==
    /\ dl.pc = "resume_open"
    /\ \/ dl' = Failed(dl, "IoError")
       \/ dl.exists /\ dl' = [dl EXCEPT !.pc = "stream"]
    /\ UNCHANGED <<sysvars, ex, ck, ru, mg, qp, rc>>

\* download_fresh: GET; the request fails or the response arrives, with
\* or without a Content-Length; the first event.
download_fresh_request ==
    /\ dl.pc = "fresh"
    /\ LET d == [dl EXCEPT !.requests = Append(@, <<"GET">>)]
       IN  \/ dl' = Failed(d, "HttpError")
           \/ \E total \in {0, Len(dl.remote)} :
                 dl' = [d EXCEPT !.pc = "fresh_create", !.status = "200",
                                 !.response = dl.remote, !.body = dl.remote,
                                 !.downloaded = 0, !.total_bytes = total,
                                 !.events = Append(@, FetchEv("downloading", 0, total, 0))]
    /\ UNCHANGED <<sysvars, ex, ck, ru, mg, qp, rc>>

\* File::create(output_path): a new, empty file, or an error.
download_fresh_create ==
    /\ dl.pc = "fresh_create"
    /\ \/ dl' = Failed(dl, "IoError")
       \/ dl' = [dl EXCEPT !.pc = "stream", !.exists = TRUE, !.file = <<>>]
    /\ UNCHANGED <<sysvars, ex, ck, ru, mg, qp, rc>>

\* (mutant) the event of the chunk that reaches the total says
\* "completed".
download_body_chunk_Completed ==
    /\ dl.pc = "stream"
    /\ \E k \in 1 .. Len(dl.body) : \E timer \in BOOLEAN :
          LET got == dl.downloaded + k
              emit == timer \/ got = dl.total_bytes
              st == IF got = dl.total_bytes THEN "completed" ELSE "downloading"
          IN  dl' = [dl EXCEPT !.file = @ \o SubSeq(dl.body, 1, k),
                               !.body = SubSeq(@, k + 1, Len(@)),
                               !.downloaded = got,
                               !.events = IF emit
                                          THEN Append(@, FetchEv(st, got, dl.total_bytes,
                                                         Percentage(got, dl.total_bytes)))
                                          ELSE @]
    /\ UNCHANGED <<sysvars, ex, ck, ru, mg, qp, rc>>

\* stream.next() gives a chunk: it is written at the end of the file, and
\* a progress event is sent when 100 ms have passed or the total is
\* reached.
download_body_chunk ==
    /\ dl.pc = "stream"
    /\ \E k \in 1 .. Len(dl.body) : \E timer \in BOOLEAN :
          LET got == dl.downloaded + k
              emit == timer \/ got = dl.total_bytes
          IN  dl' = [dl EXCEPT !.file = @ \o SubSeq(dl.body, 1, k),
                               !.body = SubSeq(@, k + 1, Len(@)),
                               !.downloaded = got,
                               !.events = IF emit
                                          THEN Append(@, FetchEv("downloading", got, dl.total_bytes,
                                                         Percentage(got, dl.total_bytes)))
                                          ELSE @]
    /\ UNCHANGED <<sysvars, ex, ck, ru, mg, qp, rc>>

\* chunk? or write_all(..)? fails.
download_body_fail ==
    /\ dl.pc = "stream"
    /\ \E e \in {"HttpError", "IoError"} : dl' = Failed(dl, e)
    /\ UNCHANGED <<sysvars, ex, ck, ru, mg, qp, rc>>

\* The stream is at its end: the "completed" event and Ok(()).
download_body_end ==
    /\ dl.pc = "stream"
    /\ dl.body = <<>>
    /\ dl' = [dl EXCEPT !.pc = "done", !.result = "ok",
                        !.events = Append(@, FetchEv("completed", dl.downloaded, dl.downloaded, 100))]
    /\ UNCHANGED <<sysvars, ex, ck, ru, mg, qp, rc>>

NextFetch ==
    \/ download_with_progress_mkdir_fail
    \/ download_with_progress_probe
    \/ download_with_progress_complete
    \/ download_with_progress_resume
    \/ download_with_progress_fresh
    \/ download_resume_request
    \/ download_resume_open
    \/ download_fresh_request
    \/ download_fresh_create
    \/ download_body_chunk
    \/ download_body_fail
    \/ download_body_end

SpecFetch == InitFetch /\ [][NextFetch]_vars

(* ----------------------------- extract_zip ---------------------------- *)

\* extract_zip on one archive and one output directory, called once and
\* then once more. A member of the archive has a name that ends with '/'
\* or not (dir), a name that enclosed_name() resolves under the output
\* directory or not (enclosed), the extension of its output path (ext) and
\* a declared size.

MemberTypes ==
    {[dir |-> FALSE, enclosed |-> TRUE, ext |-> e, size |-> 2] :
        e \in {"tif", "tiff", "TIF", "txt"}}
      \cup {[dir |-> FALSE, enclosed |-> FALSE, ext |-> "tif", size |-> 2]}
      \cup {[dir |-> TRUE, enclosed |-> TRUE, ext |-> "", size |-> 0]}

Archives(n) == UNION {[1 .. k -> MemberTypes] : k \in 0 .. n}

\* What is at a path: nothing, a directory, or a file of some size.
Absent == <<>>
Dir == <<"dir">>
FileOf(size) == <<"file", size>>

\* The path a member's name stands for, under the output directory or,
\* for a name that escapes it, outside.
RawPath(a, i) == <<IF a[i].enclosed THEN "output_dir" ELSE "outside", i>>

\* (mutant) the member's name is joined to the output directory as it is.
EnclosedName_Unchecked(a, i) == <<RawPath(a, i)>>

\* zip_file.enclosed_name(): Some(path) for a name that stays under the
\* directory it is joined to, None otherwise.
EnclosedName(a, i) == IF a[i].enclosed THEN <<RawPath(a, i)>> ELSE <<>>

DiskPaths(a) == {"output_dir", "outside"} \X DOMAIN a

\* What may be at the members' paths before the first call: nothing
\* outside the output directory; under it a directory or nothing for a
\* directory member, and nothing, a shorter file or a file of the
\* declared size for a file member.
Disks(a) ==
    {d \in [DiskPaths(a) -> {Absent, Dir, FileOf(1), FileOf(2)}] :
        \A p \in DiskPaths(a) :
            IF p[1] = "outside" \/ ~a[p[2]].enclosed THEN d[p] = Absent
            ELSE IF a[p[2]].dir THEN d[p] \in {Absent, Dir}
            ELSE d[p] \in {Absent, FileOf(1), FileOf(a[p[2]].size)}}

\* (mutant) every extension is a raster extension.
IsRaster_Any(ext) == ext # ""

\* ext == "tif" || ext == "tiff"
IsRaster(ext) == ext \in {"tif", "tiff"}

\* The state of a call at its start.
ExtractCall(a, zip, corrupt, outdir, disk, run, first) ==
    [pc |-> "start", archive |-> a, zip |-> zip, corrupt |-> corrupt,
     outdir |-> outdir, disk |-> disk, outdir0 |-> outdir, disk0 |-> disk,
     run |-> run, first |-> first,
     path |-> "", i |-> 0, extracted_files |-> <<>>, last_reported_percent |-> 0,
     events |-> <<>>, writes |-> {}, mkdirs |-> 0, result |-> ""]

\* The zip file is there and is an archive, is missing, or is no archive;
\* the entry of at most one member (corrupt) cannot be read.
InitExtract ==
    /\ uuids = 0
    /\ downloads = <<>>
    /\ writer = NoOne
    /\ readers = {}
    /\ sd = [r \in StartReqs |-> [pc |-> 1, id |-> UnknownId, packages |-> <<>>, result |-> ""]]
    /\ dp = [q \in ProgressReqs |-> [pc |-> "idle", id |-> UnknownId, result |-> "", sender |-> 0,
                                     next |-> 0, first |-> 0, got |-> <<>>]]
    /\ df = [f \in FileReqs |-> [pc |-> "idle", id |-> UnknownId, result |-> "", job |-> <<>>,
                                 body |-> "", filename |-> <<>>]]
    /\ task = [j \in JobIds |-> IdleTask]
    /\ sent = [j \in JobIds |-> <<>>]
    /\ calls = [j \in JobIds |-> <<>>]
    /\ output = [j \in JobIds |-> "absent"]
    /\ dl = IdleFetch
    /\ ck = Idle
    /\ ru = Idle
    /\ mg = Idle
    /\ qp = Idle
    /\ rc = Idle
    /\ \E a \in Archives(MaxMembers) : \E disk \in Disks(a) :
       \E zip \in {"ok", "missing", "notzip"} : \E corrupt \in 0 .. Len(a) :
       \E outdir \in BOOLEAN :
          /\ (\E p \in DiskPaths(a) : disk[p] # Absent) => outdir
          /\ zip # "ok" => corrupt = 0
          /\ ex = ExtractCall(a, zip, corrupt, outdir, disk, 1, <<>>)

\* The DownloadProgressEvent of an extraction, without speed and ETA.
ExtractEv(status, done, total, pct) ==
    [status |-> status, bytes_downloaded |-> done, total_bytes |-> total,
     percentage |-> pct]

\* check_extraction_complete from member i on, with the raster paths
\* found so far: None as soon as an entry cannot be read, a file member
\* has no enclosed name, is not there or has another size than declared;
\* None at the end when no raster file was found.
RECURSIVE CheckFrom(_, _, _)
CheckFrom(e, i, tiff_files) ==
    IF i > Len(e.archive)
    THEN IF tiff_files = <<>> THEN <<>> ELSE <<tiff_files>>
    ELSE IF e.corrupt = i THEN <<>>
    ELSE IF e.archive[i].dir THEN CheckFrom(e, i + 1, tiff_files)
    ELSE LET outpath == EnclosedName(e.archive, i)
         IN  IF outpath = <<>> THEN <<>>
             ELSE IF e.disk[outpath[1]] = Absent THEN <<>>
             ELSE IF e.disk[outpath[1]] # FileOf(e.archive[i].size) THEN <<>>
             ELSE CheckFrom(e, i + 1,
                            IF IsRaster(e.archive[i].ext)
                            THEN Append(tiff_files, outpath[1]) ELSE tiff_files)

\* (mutant) a complete extraction without a raster file counts as done.
CheckExtractionComplete_EmptyOk(e) ==
    IF e.zip # "ok" THEN <<>>
    ELSE IF CheckFrom(e, 1, <<>>) # <<>> THEN CheckFrom(e, 1, <<>>)
    ELSE IF \A i \in DOMAIN e.archive :
               /\ e.corrupt # i
               /\ ~e.archive[i].dir
                     => /\ e.archive[i].enclosed
                        /\ e.disk[RawPath(e.archive, i)] = FileOf(e.archive[i].size)
         THEN <<<<>>>>
         ELSE <<>>

\* check_extraction_complete(zip_path, output_dir): <<>> for None,
\* <<tiff_files>> for Some.
CheckExtractionComplete(e) ==
    IF e.zip # "ok" THEN <<>> ELSE CheckFrom(e, 1, <<>>)

ExtractFailed(e, err) == [e EXCEPT !.pc = "done", !.result = err]

\* The check says Some: one event, Ok(extracted.tiff_files).
extract_zip_already ==
    /\ ex.pc = "start"
    /\ CheckExtractionComplete(ex) # <<>>
    /\ ex' = [ex EXCEPT !.pc = "done", !.path = "already", !.result = "ok",
                        !.extracted_files = CheckExtractionComplete(ex)[1],
                        !.events = Append(@, ExtractEv("already extracted", 1, 1, 100))]
    /\ UNCHANGED <<sysvars, dl, ck, ru, mg, qp, rc>>

\* The check says None: File::open and ZipArchive::new.
extract_zip_open ==
    /\ ex.pc = "start"
    /\ CheckExtractionComplete(ex) = <<>>
    /\ ex' = IF ex.zip = "missing" THEN ExtractFailed([ex EXCEPT !.path = "full"], "IoError")
             ELSE IF ex.zip = "notzip" THEN ExtractFailed([ex EXCEPT !.path = "full"], "ZipError")
             ELSE [ex EXCEPT !.pc = "mkdir", !.path = "full"]
    /\ UNCHANGED <<sysvars, dl, ck, ru, mg, qp, rc>>

\* (mutant) create_dir_all's error goes through `?` as an io::Error.
extract_zip_mkdir_Io ==
    /\ ex.pc = "mkdir"
    /\ \/ ex' = ExtractFailed([ex EXCEPT !.mkdirs = @ + 1], "IoError")
       \/ ex' = [ex EXCEPT !.pc = "loop", !.i = 1, !.outdir = TRUE, !.mkdirs = @ + 1,
                           !.events = Append(@, ExtractEv("Extracting...", 0, Len(ex.archive), 0))]
    /\ UNCHANGED <<sysvars, dl, ck, ru, mg, qp, rc>>

\* create_dir_all(output_dir), then the first "Extracting..." event.
extract_zip_mkdir ==
    /\ ex.pc = "mkdir"
    /\ \/ ex' = ExtractFailed([ex EXCEPT !.mkdirs = @ + 1], "DirectoryError")
       \/ ex' = [ex EXCEPT !.pc = "loop", !.i = 1, !.outdir = TRUE, !.mkdirs = @ + 1,
                           !.events = Append(@, ExtractEv("Extracting...", 0, Len(ex.archive), 0))]
    /\ UNCHANGED <<sysvars, dl, ck, ru, mg, qp, rc>>

\* The end of one turn of the loop: the event when the percentage has
\* grown by 5 or the member is the last one.
NextMember(e) ==
    LET total_files == Len(e.archive)
        percentage == (e.i * 100) \div total_files
    IN  IF percentage - e.last_reported_percent >= 5 \/ e.i = total_files
        THEN [e EXCEPT !.i = @ + 1, !.last_reported_percent = percentage,
                       !.events = Append(@, ExtractEv("Extracting...", e.i, total_files,
                                                      percentage))]
        ELSE [e EXCEPT !.i = @ + 1]

InLoop == ex.pc = "loop" /\ ex.i <= Len(ex.archive) /\ ex.corrupt # ex.i

\* by_index(i) fails.
extract_zip_member_unreadable ==
    /\ ex.pc = "loop" /\ ex.i <= Len(ex.archive)
    /\ ex.corrupt = ex.i
    /\ ex' = ExtractFailed(ex, "ZipError")
    /\ UNCHANGED <<sysvars, dl, ck, ru, mg, qp, rc>>

\* enclosed_name() is None: continue.
extract_zip_member_skip ==
    /\ InLoop
    /\ EnclosedName(ex.archive, ex.i) = <<>>
    /\ ex' = [ex EXCEPT !.i = @ + 1]
    /\ UNCHANGED <<sysvars, dl, ck, ru, mg, qp, rc>>

\* A name that ends with '/': create_dir_all(&outpath).
extract_zip_member_dir ==
    /\ InLoop
    /\ EnclosedName(ex.archive, ex.i) # <<>>
    /\ ex.archive[ex.i].dir
    /\ LET outpath == EnclosedName(ex.archive, ex.i)[1]
       IN  \/ ex' = ExtractFailed([ex EXCEPT !.mkdirs = @ + 1], "DirectoryError")
           \/ ex' = NextMember([ex EXCEPT !.mkdirs = @ + 1, !.disk[outpath] = Dir])
    /\ UNCHANGED <<sysvars, dl, ck, ru, mg, qp, rc>>

\* (mutant) only a missing file needs extraction.
NeedsExtraction_MissingOnly(e, outpath, expected_size) == e.disk[outpath] = Absent

\* needs_extraction: no metadata, or a length other than the declared one.
NeedsExtraction(e, outpath, expected_size) ==
    IF e.disk[outpath] = Absent THEN TRUE
    ELSE e.disk[outpath] # FileOf(expected_size)

\* (mutant) every member is written again.
WriteMember_Always(e, outpath, expected_size) ==
    [e EXCEPT !.disk[outpath] = FileOf(expected_size), !.writes = @ \cup {outpath}]

\* File::create and io::copy when the member needs extraction.
WriteMember(e, outpath, expected_size) ==
    IF NeedsExtraction(e, outpath, expected_size)
    THEN [e EXCEPT !.disk[outpath] = FileOf(expected_size), !.writes = @ \cup {outpath}]
    ELSE e

\* (mutant) the paths that were written are the ones returned.
PushRaster_Written(e, outpath, ext) ==
    IF IsRaster(ext) /\ outpath \in e.writes
    THEN [e EXCEPT !.extracted_files = Append(@, outpath)] ELSE e

\* extracted_files.push(outpath) for a raster extension.
PushRaster(e, outpath, ext) ==
    IF IsRaster(ext) THEN [e EXCEPT !.extracted_files = Append(@, outpath)] ELSE e

\* A file member: written when it needs extraction, pushed when it is a
\* raster file.
extract_zip_member_file ==
    /\ InLoop
    /\ EnclosedName(ex.archive, ex.i) # <<>>
    /\ ~ex.archive[ex.i].dir
    /\ LET outpath == EnclosedName(ex.archive, ex.i)[1]
           m == ex.archive[ex.i]
       IN  ex' = NextMember(PushRaster(WriteMember(ex, outpath, m.size), outpath, m.ext))
    /\ UNCHANGED <<sysvars, dl, ck, ru, mg, qp, rc>>

\* File::create fails (the path is as it was), or io::copy fails after
\* File::create has emptied the file and part of the member was written.
extract_zip_member_file_fail ==
    /\ InLoop
    /\ EnclosedName(ex.archive, ex.i) # <<>>
    /\ ~ex.archive[ex.i].dir
    /\ LET outpath == EnclosedName(ex.archive, ex.i)[1]
           m == ex.archive[ex.i]
       IN  /\ NeedsExtraction(ex, outpath, m.size)
           /\ \/ ex' = ExtractFailed(ex, "IoError")
              \/ \E k \in 0 .. m.size - 1 :
                    ex' = ExtractFailed([ex EXCEPT !.disk[outpath] = FileOf(k),
                                                   !.writes = @ \cup {outpath}], "IoError")
    /\ UNCHANGED <<sysvars, dl, ck, ru, mg, qp, rc>>

\* After the last member: Ok(extracted_files).
extract_zip_return ==
    /\ ex.pc = "loop"
    /\ ex.i > Len(ex.archive)
    /\ ex' = [ex EXCEPT !.pc = "done", !.result = "ok"]
    /\ UNCHANGED <<sysvars, dl, ck, ru, mg, qp, rc>>

\* What a call leaves for the comparison with the next one.
Outcome(e) ==
    [result |-> e.result, path |-> e.path, extracted_files |-> e.extracted_files,
     writes |-> e.writes, disk |-> e.disk, outdir |-> e.outdir]

\* The second call, on the same archive and directory as they are now.
extract_zip_again ==
    /\ ex.pc = "done"
    /\ ex.run = 1
    /\ ex' = ExtractCall(ex.archive, ex.zip, ex.corrupt, ex.outdir, ex.disk, 2, <<Outcome(ex)>>)
    /\ UNCHANGED <<sysvars, dl, ck, ru, mg, qp, rc>>

NextExtract ==
    \/ extract_zip_already
    \/ extract_zip_open
    \/ extract_zip_mkdir
    \/ extract_zip_member_unreadable
    \/ extract_zip_member_skip
    \/ extract_zip_member_dir
    \/ extract_zip_member_file
    \/ extract_zip_member_file_fail
    \/ extract_zip_return
    \/ extract_zip_again

SpecExtract == InitExtract /\ [][NextExtract]_vars

(* -------------------------- package_cache_key ------------------------- *)

\* Strings are sequences of characters. The characters of the inputs: a
\* lower-case and an upper-case ASCII letter, a digit, the two kept
\* punctuation marks, a separator, a space, a dot and a letter that is not
\* ASCII.
Alphabet == {"a", "Z", "7", "-", "_", "/", " ", ".", "é"}

Strings(n) == UNION {[1 .. k -> Alphabet] : k \in 0 .. n}

\* c.is_ascii_alphanumeric()
IsAsciiAlphanumeric(c) ==
    c \in {"a", "b", "c", "d", "e", "f", "g", "h", "i", "j", "k", "l", "m",
           "n", "o", "p", "q", "r", "s", "t", "u", "v", "w", "x", "y", "z",
           "A", "B", "C", "D", "E", "F", "G", "H", "I", "J", "K", "L", "M",
           "N", "O", "P", "Q", "R", "S", "T", "U", "V", "W", "X", "Y", "Z",
           "0", "1", "2", "3", "4", "5", "6", "7", "8", "9"}

\* (mutant) the characters that are not kept are dropped.
SanitizeForPath_Filter(input) ==
    SelectSeq(input, LAMBDA c : IsAsciiAlphanumeric(c) \/ c = "-" \/ c = "_")

\* sanitize_for_path(input)
SanitizeForPath(input) ==
    [k \in DOMAIN input |->
        IF IsAsciiAlphanumeric(input[k]) \/ input[k] = "-" \/ input[k] = "_"
        THEN input[k] ELSE "_"]

\* The package names and download URLs of the packages given to
\* package_cache_key.
KeyNames ==
    {<<"a", "/", "Z">>, <<"a", "_", "Z">>, <<"a", " ", "Z">>, <<"a", "Z">>, <<"7">>}
Urls == {"https://example.com/a.zip", "https://example.com/b.zip", "https://example.com/c.zip"}

\* Package, with size_gb for the fields the key does not read.
Packages == [package_name : KeyNames, download_url : Urls, size_gb : {1, 2}]

\* (mutant) a hasher with random keys, as RandomState gives.
HasherKeys_Random == {0, 1}

\* DefaultHasher::new(): the same keys in every call.
HasherKeys == {0}

\* The width of the hash in the key: {:016x}.
HashWidth == 16

\* hasher.finish() after download_url.hash(&mut hasher). The 64-bit
\* SipHash is not computed: the URLs of the model have values that differ
\* from each other and with the hasher's keys.
UrlHash(k, url) ==
    (CASE url = "https://example.com/a.zip" -> 2748
       [] url = "https://example.com/b.zip" -> 41
       [] OTHER -> 65535) + 100000 * k

\* {:0<w>x}: the number in hexadecimal, padded with zeros to w digits.
RECURSIVE Hex(_, _)
Hex(n, w) ==
    IF w = 0 /\ n = 0 THEN <<>>
    ELSE Append(Hex(n \div 16, IF w = 0 THEN 0 ELSE w - 1),
                <<"0", "1", "2", "3", "4", "5", "6", "7",
                  "8", "9", "a", "b", "c", "d", "e", "f">>[(n % 16) + 1])

\* (mutant) the key is made of the name as it is.
PackageCacheKey_RawName(pkg, k) ==
    pkg.package_name \o <<"_">> \o Hex(UrlHash(k, pkg.download_url), HashWidth)

\* package_cache_key(pkg), with the keys of the hasher it creates.
PackageCacheKey(pkg, k) ==
    SanitizeForPath(pkg.package_name) \o <<"_">> \o Hex(UrlHash(k, pkg.download_url), HashWidth)

\* format!("{}/{}.zip", zip_cache_dir, cache_key)
ZipPath(key) == <<"zips", "/">> \o key \o <<".zip">>
\* format!("{}/{}", extract_cache_dir, cache_key)
ExtractDir(key) == <<"extracts", "/">> \o key

\* Either a string for sanitize_for_path or two packages for
\* package_cache_key.
InitKey ==
    /\ uuids = 0
    /\ downloads = <<>>
    /\ writer = NoOne
    /\ readers = {}
    /\ sd = [r \in StartReqs |-> [pc |-> 1, id |-> UnknownId, packages |-> <<>>, result |-> ""]]
    /\ dp = [q \in ProgressReqs |-> [pc |-> "idle", id |-> UnknownId, result |-> "", sender |-> 0,
                                     next |-> 0, first |-> 0, got |-> <<>>]]
    /\ df = [f \in FileReqs |-> [pc |-> "idle", id |-> UnknownId, result |-> "", job |-> <<>>,
                                 body |-> "", filename |-> <<>>]]
    /\ task = [j \in JobIds |-> IdleTask]
    /\ sent = [j \in JobIds |-> <<>>]
    /\ calls = [j \in JobIds |-> <<>>]
    /\ output = [j \in JobIds |-> "absent"]
    /\ dl = IdleFetch
    /\ ex = Idle
    /\ ru = Idle
    /\ mg = Idle
    /\ qp = Idle
    /\ rc = Idle
    /\ \/ \E input \in Strings(MaxName) :
             ck = [pc |-> "sanitize", input |-> input, output |-> <<>>, again |-> <<>>]
       \/ \E a, b \in Packages :
             ck = [pc |-> "key", a |-> a, b |-> b, key_a |-> <<>>, key_b |-> <<>>,
                   key_a_again |-> <<>>]

\* sanitize_for_path(input), and sanitize_for_path of its result.
sanitize_for_path_call ==
    /\ ck.pc = "sanitize"
    /\ ck' = [ck EXCEPT !.pc = "sanitized",
                        !.output = SanitizeForPath(ck.input),
                        !.again = SanitizeForPath(SanitizeForPath(ck.input))]
    /\ UNCHANGED <<sysvars, dl, ex, ru, mg, qp, rc>>

\* package_cache_key of the first package, of the second, and of the
\* first once more; each call creates its hasher.
package_cache_key_call ==
    /\ ck.pc = "key"
    /\ \E k1, k2, k3 \in HasherKeys :
          ck' = [ck EXCEPT !.pc = "keyed",
                           !.key_a = PackageCacheKey(ck.a, k1),
                           !.key_b = PackageCacheKey(ck.b, k2),
                           !.key_a_again = PackageCacheKey(ck.a, k3)]
    /\ UNCHANGED <<sysvars, dl, ex, ru, mg, qp, rc>>

NextKey ==
    \/ sanitize_for_path_call
    \/ package_cache_key_call

SpecKey == InitKey /\ [][NextKey]_vars

(* ------------------- two jobs on the cache of a package --------------- *)

\* run_download_job for one package in job A, then for one package in a
\* job B that starts when A is through with its package: for each,
\* download_with_progress to the zip path of the package's key, then
\* extract_zip of that file into the extract directory of the key. The
\* cache holds what A left.

\* ZipArchive::new finds the central directory from the end of the file:
\* the file is an archive when it ends with the whole remote archive.
ZipReadable(file, remote) ==
    /\ Len(remote) > 0
    /\ Len(file) >= Len(remote)
    /\ SubSeq(file, Len(file) - Len(remote) + 1, Len(file)) = remote

\* The package of job A, and the packages job B may name: the same
\* package, but for a field the key does not read, or one of another URL.
PackageA == [package_name |-> <<"a", "/", "Z">>, download_url |-> "https://example.com/a.zip",
             size_gb |-> 1]
PackagesB == {[PackageA EXCEPT !.size_gb = 2],
              [PackageA EXCEPT !.download_url = "https://example.com/b.zip"]}

\* The archives of the packages: they hold at least one raster file that
\* extract_zip returns.
RasterArchives ==
    {a \in Archives(MaxMembers) :
        \E i \in DOMAIN a : ~a[i].dir /\ a[i].enclosed /\ IsRaster(a[i].ext)}

InitReuse ==
    /\ uuids = 0
    /\ downloads = <<>>
    /\ writer = NoOne
    /\ readers = {}
    /\ sd = [r \in StartReqs |-> [pc |-> 1, id |-> UnknownId, packages |-> <<>>, result |-> ""]]
    /\ dp = [q \in ProgressReqs |-> [pc |-> "idle", id |-> UnknownId, result |-> "", sender |-> 0,
                                     next |-> 0, first |-> 0, got |-> <<>>]]
    /\ df = [f \in FileReqs |-> [pc |-> "idle", id |-> UnknownId, result |-> "", job |-> <<>>,
                                 body |-> "", filename |-> <<>>]]
    /\ task = [j \in JobIds |-> IdleTask]
    /\ sent = [j \in JobIds |-> <<>>]
    /\ calls = [j \in JobIds |-> <<>>]
    /\ output = [j \in JobIds |-> "absent"]
    /\ ex = Idle
    /\ ck = Idle
    /\ mg = Idle
    /\ qp = Idle
    /\ rc = Idle
    /\ \E n \in 1 .. MaxSize : \E local \in LocalFiles(RemoteBody(n)) : \E k \in HasherKeys :
          /\ dl = FetchCall(RemoteBody(n), local)
          /\ ru = [pc |-> "A_download", job |-> "A", pkg |-> PackageA,
                   zip_path |-> ZipPath(PackageCacheKey(PackageA, k)),
                   extract_dir |-> ExtractDir(PackageCacheKey(PackageA, k)),
                   remote |-> RemoteBody(n),
                   a |-> <<>>]

\* Job A's download has returned Ok: extract_zip on the file it left. The
\* archive is what the remote resource holds; the extract directory holds
\* anything or nothing.
job_a_extract ==
    /\ ru.pc = "A_download"
    /\ dl.pc = "done" /\ dl.result = "ok"
    /\ \E a \in RasterArchives : \E disk \in Disks(a) : \E outdir \in BOOLEAN :
          /\ (\E p \in DiskPaths(a) : disk[p] # Absent) => outdir
          /\ ex' = ExtractCall(a, IF ZipReadable(dl.file, dl.remote) THEN "ok" ELSE "notzip",
                               0, outdir, disk, 1, <<>>)
          /\ ru' = [ru EXCEPT !.pc = "A_extract",
                              !.a = <<[zip_path |-> ru.zip_path, extract_dir |-> ru.extract_dir,
                                       file |-> dl.file]>>]
    /\ dl' = IdleFetch
    /\ UNCHANGED <<sysvars, ck, mg, qp, rc>>

\* Job A's extraction has returned Ok; job B comes to its package: the
\* paths of its key, and download_with_progress on what is at its zip
\* path, with any hasher keys the build gives.
job_b_download ==
    /\ ru.pc = "A_extract"
    /\ ex.pc = "done" /\ ex.result = "ok"
    /\ \E pkg \in PackagesB : \E k \in HasherKeys :
          LET zip_path == ZipPath(PackageCacheKey(pkg, k))
              same == zip_path = ru.a[1].zip_path
          IN  /\ dl' = FetchCall(ru.remote,
                                 IF same THEN <<TRUE, ru.a[1].file>> ELSE <<FALSE, <<>>>>)
              /\ ru' = [ru EXCEPT !.pc = "B_download", !.job = "B", !.pkg = pkg,
                                  !.zip_path = zip_path,
                                  !.extract_dir = ExtractDir(PackageCacheKey(pkg, k)),
                                  !.a = <<[ru.a[1] EXCEPT !.file = <<>>] @@
                                          [archive |-> ex.archive, disk |-> ex.disk,
                                           outdir |-> ex.outdir,
                                           tiff_files |-> ex.extracted_files]>>]
    /\ ex' = Idle
    /\ UNCHANGED <<sysvars, ck, mg, qp, rc>>

\* Job B's download has returned Ok: extract_zip into the directory of
\* its key, which is as A left it when it is A's directory.
job_b_extract ==
    /\ ru.pc = "B_download"
    /\ dl.pc = "done" /\ dl.result = "ok"
    /\ LET same == ru.extract_dir = ru.a[1].extract_dir
           a == ru.a[1].archive
       IN  ex' = ExtractCall(a, IF ZipReadable(dl.file, dl.remote) THEN "ok" ELSE "notzip", 0,
                             IF same THEN ru.a[1].outdir ELSE FALSE,
                             IF same THEN ru.a[1].disk ELSE [p \in DiskPaths(a) |-> Absent],
                             1, <<>>)
    /\ ru' = [ru EXCEPT !.pc = "B_extract",
                        !.a = <<ru.a[1] @@ [b_path |-> dl.path, b_requests |-> dl.requests,
                                            b_expected_size |-> dl.expected_size]>>]
    /\ dl' = IdleFetch
    /\ UNCHANGED <<sysvars, ck, mg, qp, rc>>

NextReuse ==
    \/ NextFetch
    \/ extract_zip_already
    \/ extract_zip_open
    \/ extract_zip_mkdir
    \/ extract_zip_member_skip
    \/ extract_zip_member_dir
    \/ extract_zip_member_file
    \/ extract_zip_member_file_fail
    \/ extract_zip_return
    \/ job_a_extract
    \/ job_b_download
    \/ job_b_extract

SpecReuse == InitReuse /\ [][NextReuse]_vars

(* ======================= the job's stage sequence ===================== *)

\* The m-th stage of a job with n packages: Download(p1), Extract(p1), ...,
\* Download(pn), Extract(pn), Merge.
StageAt(m, n) ==
    IF m > 2 * n THEN <<"merge", n>>
    ELSE IF m % 2 = 1 THEN <<"download", (m + 1) \div 2>>
    ELSE <<"extract", m \div 2>>

NumCalls(c) == Cardinality({k \in DOMAIN c : c[k].what = "call"})
NumReturns(c) == Cardinality({k \in DOMAIN c : c[k].what # "call"})

\* A log of calls and returns in which the stages run one after the
\* other in the order of StageAt, each called only when the one before it
\* has returned Ok.
Sequential(c, n) ==
    /\ Len(c) <= 2 * (2 * n + 1)
    /\ \A k \in DOMAIN c :
          IF k % 2 = 1
          THEN /\ c[k].what = "call"
               /\ <<c[k].stage, c[k].pkg>> = StageAt((k + 1) \div 2, n)
               /\ k > 1 => c[k - 1].what = "ok"
          ELSE /\ c[k].what \in {"ok", "err"}
               /\ c[k].stage = c[k - 1].stage
               /\ c[k].pkg = c[k - 1].pkg

HasReturned(c, k, stage, i) ==
    \E m \in 1 .. k - 1 : c[m] = [what |-> "ok", stage |-> stage, pkg |-> i]

Count(log, kind) == Cardinality({k \in DOMAIN log : log[k].kind = kind})

\* C1: within one job the stages run strictly one after the other in
\* package order, Download(p1), Extract(p1), ..., Download(pn),
\* Extract(pn), Merge, terminal: at most one stage of a job is active,
\* Download(p_i+1) starts only after Extract(p_i) returned Ok, and Merge
\* only after Extract(p_n) returned Ok.
C1_StagesSequential ==
    \A j \in JobIds :
        LET c == calls[j]
            n == Len(task[j].packages)
        IN  /\ Sequential(c, n)
            /\ NumCalls(c) - NumReturns(c) \in {0, 1}
            /\ (NumCalls(c) - NumReturns(c) = 1) <=> (task[j].pc \in Stages)
            /\ \A k \in DOMAIN c :
                  /\ (c[k].what = "call" /\ c[k].stage = "download" /\ c[k].pkg > 1)
                        => HasReturned(c, k, "extract", c[k].pkg - 1)
                  /\ (c[k].what = "call" /\ c[k].stage = "merge" /\ n > 0)
                        => HasReturned(c, k, "extract", n)
                  /\ (c[k].what # "call" /\ c[k].stage = "merge") => k = Len(c)
            /\ task[j].pc \in {"complete", "ok"} => c[Len(c)] = [what |-> "ok", stage |-> "merge", pkg |-> n]

\* A job of MaxPkgs packages went through every stage and ended.
C1_Witness ==
    \E j \in JobIds :
        /\ Len(task[j].packages) = MaxPkgs
        /\ task[j].pc = "ok"
        /\ Len(calls[j]) = 2 * (2 * MaxPkgs + 1)

\* C2: when the download or the extraction of p_i has failed, no stage is
\* started after it (no later package, no retry of the failed stage, no
\* merge) and no Complete event is published.
C2_FailureAborts ==
    \A j \in JobIds :
        \A k \in DOMAIN calls[j] :
            (calls[j][k].what = "err" /\ calls[j][k].stage \in {"download", "extract"})
                => /\ k = Len(calls[j])
                   /\ task[j].pc = "err"
                   /\ Count(sent[j], "Complete") = 0

\* The first package's stage failed in a job that has later packages.
C2_Witness ==
    \E j \in JobIds :
        /\ Len(task[j].packages) >= 2
        /\ calls[j] # <<>>
        /\ calls[j][Len(calls[j])].what = "err"
        /\ calls[j][Len(calls[j])].pkg = 1
        /\ calls[j][Len(calls[j])].stage = "extract"

\* C3 (as claimed): every failed job has published exactly one Error
\* event, as its last event, and no Complete event.
C3_OneErrorEvent ==
    \A j \in JobIds :
        task[j].pc = "err"
            => /\ Count(sent[j], "Error") = 1
               /\ sent[j][Len(sent[j])].kind = "Error"
               /\ Count(sent[j], "Complete") = 0

\* C4: a job whose stages all succeeded publishes exactly one Complete
\* event, only after merge_to_cog returned Ok; nothing is published after
\* it, and no job publishes both Complete and Error.
C4_CompleteIsLast ==
    \A j \in JobIds :
        /\ task[j].pc = "ok" => Count(sent[j], "Complete") = 1
        /\ Count(sent[j], "Complete") <= 1
        /\ \A k \in DOMAIN sent[j] :
              sent[j][k].kind = "Complete"
                  => /\ k = Len(sent[j])
                     /\ task[j].pc = "ok"
                     /\ calls[j] # <<>>
                     /\ calls[j][Len(calls[j])] =
                            [what |-> "ok", stage |-> "merge", pkg |-> Len(task[j].packages)]
        /\ ~(Count(sent[j], "Complete") > 0 /\ Count(sent[j], "Error") > 0)
        /\ task[j].pc = "complete" => ENABLED run_download_job_complete(j)

\* A job of two packages or more ended with its Complete event.
C4_Witness ==
    \E j \in JobIds :
        /\ task[j].pc = "ok"
        /\ Len(task[j].packages) >= 2
        /\ sent[j][Len(sent[j])].kind = "Complete"

(* ========================== the order of events ======================= *)

\* For each package its fetch events come before its extraction events,
\* and every Download event comes before the first Processing event.
StageOrder(log) ==
    \A a, b \in DOMAIN log :
        /\ (log[a].kind = "Download" /\ log[b].kind = "Download"
              /\ log[a].pkg = log[b].pkg
              /\ log[a].status \in FetchStatuses /\ log[b].status \in ExtractStatuses)
             => a < b
        /\ (log[a].kind = "Download" /\ log[b].kind = "Processing") => a < b

\* Events that name packages of different names come in the order of the
\* positions of those packages in the request: no event naming p_j comes
\* before an event naming p_i, for i < j of different names.
NameOrder(log, pkgs) ==
    \A a \in DOMAIN log : \A b \in 1 .. a - 1 :
        (log[a].kind = "Download" /\ log[b].kind = "Download"
           /\ log[a].package_name # log[b].package_name)
          => ~\E i, j \in DOMAIN pkgs :
                i < j /\ pkgs[i] = log[a].package_name /\ pkgs[j] = log[b].package_name

\* The place of an event in the order of packages and stages: the fetch
\* events of p_i, then its extraction events, then those of p_i+1, and
\* after the n packages the events that are not Download events.
EventRank(e, n) ==
    IF e.kind # "Download" THEN 2 * n + 2
    ELSE IF e.status \in ExtractStatuses THEN 2 * e.pkg + 1
    ELSE 2 * e.pkg

\* No event comes before an event of a lower rank; ranks are ordered, so
\* it is enough that no event is followed by one of a lower rank.
RankOrder(log, n) ==
    \A a \in 1 .. Len(log) - 1 : EventRank(log[a], n) <= EventRank(log[a + 1], n)

\* C5 (as claimed): every event naming p_i is published before every
\* event naming p_j, for i < j with different names; fetch before
\* extraction for each package; Download events before Processing events.
C5_NameOrder ==
    \A j \in JobIds : NameOrder(sent[j], task[j].packages) /\ StageOrder(sent[j])

\* No name of the request comes back after a package of another name.
Contiguous(pkgs) ==
    \A a, b, c \in DOMAIN pkgs : (a < b /\ b < c /\ pkgs[a] = pkgs[c]) => pkgs[b] = pkgs[a]

\* C5 (amended): every event published for p_i carries the name of p_i
\* and is published before every event published for p_j, i < j; so events
\* naming packages of different names are in package order when no name
\* comes back after another one; fetch before extraction for each
\* package; Download events before Processing events.
C5_PackageOrder ==
    \A j \in JobIds :
        LET log == sent[j]
            pkgs == task[j].packages
        IN  /\ \A a \in DOMAIN log :
                  log[a].kind = "Download"
                      => /\ log[a].pkg \in DOMAIN pkgs
                         /\ log[a].package_name = pkgs[log[a].pkg]
            /\ RankOrder(log, Len(pkgs))
            /\ Contiguous(pkgs) => NameOrder(log, pkgs)

\* A job whose request names A, B, A has published events for all three
\* packages and for the merge.
C5_Witness ==
    \E j \in JobIds :
        /\ task[j].packages = Alternating(3)
        /\ \E a \in DOMAIN sent[j] : sent[j][a].pkg = 3 /\ sent[j][a].status \in ExtractStatuses
        /\ Count(sent[j], "Processing") > 0

(* ============================ the registry ============================ *)

\* The start_download calls that have inserted their job.
Registered == {r \in StartReqs :
                  /\ sd[r].result # "err"
                  /\ \E k \in DOMAIN SdOrder : SdOrder[k] = "insert" /\ sd[r].pc > k}

\* C6: start_download registers the job before it spawns the task and
\* before it returns: a task exists and events are published only for a
\* registered id, a lookup by a returned id succeeds whatever the task has
\* done (download_progress reaches its subscription, download_file its
\* job), and the call returns without waiting for the task.
C6_RegisteredFirst ==
    /\ \A j \in JobIds : (task[j].pc # "none" \/ sent[j] # <<>>) => j \in DOMAIN downloads
    /\ \A r \in StartReqs :
          /\ sd[r].result = "ok" => RegistryGet(downloads, sd[r].id) = <<DownloadJob(sd[r].id)>>
          /\ SdAt(r, "return") => ENABLED start_download_return(r)
    /\ \A q \in ProgressReqs :
          (dp[q].pc # "idle" /\ dp[q].id \in ReturnedIds)
              => /\ dp[q].pc \in {"reading", "sender", "streaming"}
                 /\ dp[q].pc = "sender" => ENABLED download_progress_subscribe(q)
    /\ \A f \in FileReqs :
          (df[f].pc # "idle" /\ df[f].id \in ReturnedIds)
              => df[f].result # "Download not found"

\* A call has returned its id and a subscription by that id is made
\* while the job's task has not run any stage.
C6_Witness ==
    \E r \in StartReqs :
        /\ sd[r].result = "ok"
        /\ task[sd[r].id].pc = "sleep"
        /\ sent[sd[r].id] = <<>>
        /\ \E q \in ProgressReqs : dp[q].id = sd[r].id /\ dp[q].pc = "streaming"

\* C7: a download_progress or download_file call with an id that no
\* start_download call has returned ends with "Download not found", gets no sender to
\* subscribe to and no job to open, and leaves the registry as it was.
C7_UnknownIdNotFound ==
    [][/\ \A q \in ProgressReqs :
             (dp'[q] # dp[q] /\ dp'[q].id \notin ReturnedIds)
                 => /\ downloads' = downloads
                    /\ dp'[q].pc \in {"reading", "done"}
                    /\ dp'[q].sender = 0
                    /\ dp'[q].pc = "done" => dp'[q].result = "Download not found"
       /\ \A f \in FileReqs :
             (df'[f] # df[f] /\ df'[f].id \notin ReturnedIds)
                 => /\ downloads' = downloads
                    /\ df'[f].pc \in {"reading", "done"}
                    /\ df'[f].job = <<>>
                    /\ df'[f].pc = "done" => df'[f].result = "Download not found"]_vars

\* Both handlers have answered not-found for the unknown id while a job
\* is registered.
C7_Witness ==
    /\ DOMAIN downloads # {}
    /\ \E q \in ProgressReqs :
          dp[q].id = UnknownId /\ dp[q].pc = "done" /\ dp[q].result = "Download not found"
    /\ \E f \in FileReqs :
          df[f].id = UnknownId /\ df[f].pc = "done" /\ df[f].result = "Download not found"

\* C8: the registry only grows: no step removes an entry or changes the
\* job an id is bound to, whether the job is running, completed or failed.
C8_RegistryOnlyGrows ==
    [][\A id \in DOMAIN downloads :
          id \in DOMAIN downloads' /\ downloads'[id] = downloads[id]]_vars

\* Two jobs are registered, one has completed and the other has failed.
C8_Witness ==
    /\ Cardinality(DOMAIN downloads) = 2
    /\ \E j, k \in DOMAIN downloads : task[j].pc = "ok" /\ task[k].pc = "err"

\* C9: the registry is under a readers-writer discipline: a write guard
\* excludes every other guard, read guards are shared; concurrent
\* start_download calls get distinct ids and each registers one entry;
\* guards are held by handlers inside their lookup or insertion only, and
\* the task of a job does not exist while its handler holds the guard.
C9_ReadersWriter ==
    /\ writer \in StartReqs \cup {NoOne}
    /\ readers \subseteq ProgressReqs \cup FileReqs
    /\ writer # NoOne => readers = {}
    /\ \A r1, r2 \in Registered : r1 # r2 => sd[r1].id # sd[r2].id
    /\ DOMAIN downloads = {sd[r].id : r \in Registered}
    /\ Cardinality(DOMAIN downloads) = Cardinality(Registered)
    /\ \A r \in StartReqs :
          /\ writer = r <=> SdAt(r, "insert")
          /\ writer = r => task[sd[r].id].pc = "none"
    /\ \A q \in ProgressReqs : q \in readers <=> dp[q].pc = "reading"
    /\ \A f \in FileReqs : f \in readers <=> df[f].pc = "reading"

\* Two calls have registered two distinct ids, two lookups hold read
\* guards together, and a stage of a job is running.
C9_Witness ==
    /\ Cardinality(readers) = 2
    /\ Cardinality(ReturnedIds) = Cardinality(StartReqs)
    /\ Cardinality(DOMAIN downloads) = Cardinality(StartReqs)
    /\ \E j \in JobIds : task[j].pc \in Stages

\* C10 (as claimed): download_file returns the output file only when the
\* job has published its Complete event; before that, and after a failure,
\* the answer is not-found.
C10_FileOnlyAfterComplete ==
    \A f \in FileReqs :
        df[f].result = "ok" => Count(sent[df[f].id], "Complete") = 1

(* ====================== output files and filenames ==================== *)

\* C11 (as claimed): distinct jobs have distinct output paths, and no
\* file-retrieval request has read a job's output file while the task of
\* the job is still writing it.
C11_NoOutputRace ==
    /\ \A j, k \in DOMAIN downloads :
          j # k => downloads[j].output_path # downloads[k].output_path
    /\ \A f \in DOMAIN df :
          ~(/\ df[f].result = "ok"
            /\ df[f].body = "partial"
            /\ At(df[f].id, "merge", "translate"))

\* C12 (as claimed): the Complete event of a job carries a non-empty
\* filename, the filename of the job's registry entry.
C12_CompleteNamesOutput ==
    \A j \in DOMAIN downloads :
        \A k \in DOMAIN sent[j] :
            sent[j][k].kind = "Complete"
                => /\ sent[j][k].output_filename # <<>>
                   /\ sent[j][k].output_filename = downloads[j].filename

(* ============================ event streams =========================== *)

\* The events the channel of job j has taken from position a on, up to
\* position b.
Published(j, a, b) == SubSeq(sent[j], a, b)

\* The clients that have a receiver.
Subscribed == {q \in DOMAIN dp : dp[q].pc \in {"streaming", "ended"}}

\* How many events the receiver of q has not read yet.
Behind(q) == Len(sent[dp[q].sender]) - dp[q].next + 1

\* C13 (as claimed): a subscriber receives every event the job publishes
\* after the subscription, in publication order and each at most once:
\* what it has received are the events published since it subscribed, up
\* to its position, and its stream goes on to the next one as long as
\* there is one.
C13_ReceivesAll ==
    \A q \in Subscribed :
        /\ dp[q].got = Published(dp[q].sender, dp[q].first, dp[q].next - 1)
        /\ Behind(q) > 0 => (dp[q].pc = "streaming" /\ ENABLED download_progress_recv(q))

\* C13 (amended): what a subscriber has received are the events published
\* since it subscribed, in order and once each, up to its position; its
\* stream goes on to the next event as long as it is at most Capacity
\* events behind, and ends without another event once it is further
\* behind.
C13_ReceivesWhileInRing ==
    \A q \in Subscribed :
        /\ dp[q].got = Published(dp[q].sender, dp[q].first, dp[q].next - 1)
        /\ dp[q].next = dp[q].first + Len(dp[q].got)
        /\ (dp[q].pc = "streaming" /\ Behind(q) > 0 /\ Behind(q) <= Capacity)
              => ENABLED download_progress_recv(q)
        /\ (dp[q].pc = "streaming" /\ Behind(q) > Capacity)
              => (ENABLED download_progress_lagged(q) /\ ~ENABLED download_progress_recv(q))
        /\ dp[q].pc = "ended" => Behind(q) > Capacity

\* A subscriber that joined during the job has received events up to the
\* Complete event, and another one's stream has ended behind.
C13_Witness ==
    \E q, p \in Subscribed :
        /\ dp[q].pc = "streaming"
        /\ dp[q].first > 1
        /\ Len(dp[q].got) >= 2
        /\ dp[q].got[Len(dp[q].got)].kind = "Complete"
        /\ dp[p].pc = "ended"

\* C14: no replay: a subscriber receives no event published before it
\* subscribed, so the events published before any subscription are
\* received by no one, and a subscriber that attaches after the last
\* event of the job receives nothing.
C14_NoReplay ==
    \A q \in Subscribed :
        /\ dp[q].first <= dp[q].next
        /\ \A k \in DOMAIN dp[q].got :
              /\ dp[q].first + k - 1 \in DOMAIN sent[dp[q].sender]
              /\ dp[q].got[k] = sent[dp[q].sender][dp[q].first + k - 1]
        /\ Len(dp[q].got) <= Len(sent[dp[q].sender]) - dp[q].first + 1
        /\ dp[q].first = Len(sent[dp[q].sender]) + 1
              => (dp[q].got = <<>> /\ ~ENABLED download_progress_recv(q))

\* A job has ended with its Complete event and a subscriber attached
\* after it: it has received nothing and has nothing to receive.
C14_Witness ==
    \E q \in Subscribed :
        /\ task[dp[q].id].pc = "ok"
        /\ dp[q].first = Len(sent[dp[q].id]) + 1
        /\ Count(sent[dp[q].id], "Complete") = 1
        /\ dp[q].got = <<>>

\* The task of job j has a step to take.
Running(j) == task[j].pc \notin {"none", "ok", "err"}

\* What a job whose package is in the cache publishes when it succeeds.
CachedRun(j) ==
    <<DownloadEv(1, task[j].packages[1], "already downloaded"),
      DownloadEv(1, task[j].packages[1], "already extracted"),
      ProcessingEv("merging", 0), ProcessingEv("merging", 10),
      ProcessingEv("creating_cog", 60), ProcessingEv("completed", 100),
      CompleteEv(CompleteFilename)>>

\* C15: publishing never blocks or fails the job: a running task has a
\* step whatever the receivers of its channel are doing (none, reading,
\* behind, ended), a job that succeeds has published the same events
\* whatever they did, and a subscriber within the ring gets its next event
\* whatever the other subscribers do.
C15_PublishNeverBlocks ==
    /\ \A j \in JobIds :
          /\ Running(j) => ENABLED BusTaskNext(j)
          /\ task[j].pc = "ok" => sent[j] = CachedRun(j)
          /\ task[j].pc = "err" => sent[j] = SubSeq(CachedRun(j), 1, 4)
    /\ \A q \in Subscribed :
          (dp[q].pc = "streaming" /\ Behind(q) > 0 /\ Behind(q) <= Capacity)
              => /\ ENABLED download_progress_recv(q)
                 /\ Recv(sent[dp[q].sender], dp[q].next)
                        = <<"ok", sent[dp[q].sender][dp[q].next]>>

\* A job has run to its Complete event with one subscriber that read
\* nothing and was left behind and another that received every event.
C15_Witness ==
    \E j \in JobIds : \E q, p \in Subscribed :
        /\ task[j].pc = "ok"
        /\ dp[q].sender = j /\ dp[p].sender = j
        /\ dp[p].got = <<>> /\ Behind(p) > Capacity
        /\ dp[q].first = 1 /\ dp[q].got = sent[j]

\* C16: each job has its own channel: the receiver a client gets for a
\* job id is on the channel of that job and yields the events of that
\* job's task only; the tasks share nothing, so a running job has a step
\* whether or not the other job has failed.
C16_OwnBus ==
    /\ \A j, k \in DOMAIN downloads : j # k => downloads[j].sender # downloads[k].sender
    /\ \A q \in DOMAIN dp :
          dp[q].pc \in {"sender", "streaming", "ended"}
              => /\ dp[q].sender = downloads[dp[q].id].sender
                 /\ dp[q].got = Published(dp[q].id, dp[q].first, dp[q].first + Len(dp[q].got) - 1)
    /\ \A j, k \in JobIds :
          (j # k /\ task[k].pc = "err")
              => /\ Sequential(calls[j], Len(task[j].packages))
                 /\ Running(j) => ENABLED BusTaskNext(j)
                 /\ task[j].pc = "ok" => sent[j] = CachedRun(j)

\* One job has failed, the other has succeeded, and a subscriber of the
\* successful job received its events up to the Complete event while the
\* failed job published other events.
C16_Witness ==
    \E j, k \in JobIds : \E q \in Subscribed :
        /\ task[k].pc = "err" /\ task[j].pc = "ok"
        /\ dp[q].id = j
        /\ dp[q].first = 1
        /\ dp[q].got = sent[j]
        /\ sent[k] # <<>>
        /\ sent[k][1] # sent[j][1]

(* ======================= download_with_progress ======================= *)

\* The call has probed the size and chosen its path.
Chosen == dl.pc \notin {"idle", "start", "choose"} /\ dl.result # "DirectoryError"

\* The destination before the call, against the probed size.
CompleteBefore == dl.expected_size > 0 /\ dl.exists0 /\ Len(dl.file0) = dl.expected_size
PartialBefore ==
    dl.expected_size > 0 /\ dl.exists0 /\ Len(dl.file0) > 0 /\ Len(dl.file0) < dl.expected_size
NeitherBefore ==
    \/ ~dl.exists0
    \/ Len(dl.file0) = 0
    \/ dl.expected_size = 0
    \/ Len(dl.file0) > dl.expected_size

BodyRequests == {k \in DOMAIN dl.requests : dl.requests[k][1] = "GET"}
RangeRequests == {k \in BodyRequests : Len(dl.requests[k]) > 1}

\* C17: with a known (non-zero) probed size and a destination of exactly
\* that size the call issues no body request, leaves the file as it was,
\* sends one event (100 %, "already downloaded", both byte counts the
\* remote size) and returns Ok; with an unknown size (0) it never does.
C17_ShortCircuit ==
    /\ (Chosen /\ CompleteBefore) => dl.path = "short"
    /\ dl.path = "short"
          => /\ CompleteBefore
             /\ BodyRequests = {}
             /\ dl.exists /\ dl.file = dl.file0
             /\ dl.events = <<FetchEv("already downloaded", dl.expected_size,
                                      dl.expected_size, 100)>>
             /\ dl.pc = "done" /\ dl.result = "ok"
    /\ (Chosen /\ dl.expected_size = 0) => dl.path # "short"

\* The call found the whole resource of MaxSize bytes in place.
C17_Witness ==
    /\ dl.pc = "done"
    /\ dl.path = "short"
    /\ Len(dl.file0) = MaxSize
    /\ dl.result = "ok"

\* C18 (as claimed): with a destination of a size strictly between 0 and
\* the known remote size the call resumes: one range request from the
\* partial size, the received bytes after the bytes that were there; and
\* when the resumed fetch returns Ok the file has the remote size and the
\* last event has percentage 100.
C18_ResumeCompletes ==
    /\ (Chosen /\ PartialBefore) => dl.path = "resume"
    /\ dl.path = "resume"
          => /\ PartialBefore
             /\ \A k \in BodyRequests : dl.requests[k] = <<"GET", "Range", Len(dl.file0)>>
             /\ dl.exists
             /\ SubSeq(dl.file, 1, Len(dl.file0)) = dl.file0
             /\ dl.result = "ok"
                   => /\ Len(dl.file) = dl.expected_size
                      /\ dl.events[Len(dl.events)].percentage = 100

\* C19: when the server rejects the range request the call fails with
\* RangeNotSupported, which no other failure gives; no other body request
\* is made, the partial file is as it was, and no event was sent.
C19_RangeRejected ==
    /\ dl.pc # "idle" /\ dl.status = "rejected"
          => /\ dl.pc = "done"
             /\ dl.result = "RangeNotSupported"
             /\ dl.path = "resume"
             /\ Cardinality(BodyRequests) = 1 /\ RangeRequests = BodyRequests
             /\ dl.exists /\ dl.file = dl.file0
             /\ dl.events = <<>>
    /\ dl.pc # "idle" /\ dl.result = "RangeNotSupported" => dl.status = "rejected"

\* The range request for the rest of a partial file was rejected.
C19_Witness ==
    /\ dl.pc = "done"
    /\ dl.status = "rejected"
    /\ dl.result = "RangeNotSupported"
    /\ Len(dl.file) > 0

\* C20: exactly one of the three paths is taken by a call that has
\* probed the size; the fresh one in every case that is neither the
\* short-circuit nor a resume (no file, empty file, file larger than the
\* known size, size unknown): a non-empty destination is deleted, one
\* plain GET is made, the body is written in arrival order to a new file,
\* and on Ok the file holds exactly the response body.
C20_FreshFetch ==
    /\ dl.pc # "idle"
          => /\ (CompleteBefore /\ ~PartialBefore /\ ~NeitherBefore)
                   \/ (~CompleteBefore /\ PartialBefore /\ ~NeitherBefore)
                   \/ (~CompleteBefore /\ ~PartialBefore /\ NeitherBefore)
             /\ dl.path \in {"", "short", "resume", "fresh"}
    /\ Chosen
          => /\ CompleteBefore => dl.path = "short"
             /\ PartialBefore => dl.path = "resume"
             /\ NeitherBefore => dl.path = "fresh"
    /\ dl.path = "fresh"
          => /\ NeitherBefore
             /\ RangeRequests = {} /\ Cardinality(BodyRequests) <= 1
             /\ (dl.pc \in {"fresh", "fresh_create"} /\ Len(dl.file0) > 0) => ~dl.exists
             /\ dl.pc = "stream" => (BodyRequests # {} /\ dl.exists /\ dl.file \o dl.body = dl.response)
             /\ dl.result = "ok"
                   => /\ Cardinality(BodyRequests) = 1
                      /\ dl.exists
                      /\ dl.file = dl.response
                      /\ dl.response = dl.remote

\* A destination larger than the known remote size was replaced by the
\* response body.
C20_Witness ==
    /\ dl.pc = "done"
    /\ dl.path = "fresh"
    /\ dl.result = "ok"
    /\ dl.expected_size > 0
    /\ dl.exists0 /\ Len(dl.file0) > dl.expected_size
    /\ dl.file = dl.remote

\* The "completed" events of the call so far.
CompletedEvents == {k \in DOMAIN dl.events : dl.events[k].status = "completed"}

\* C21: a fresh or resumed fetch that returns Ok has sent exactly one
\* "completed" event, with percentage 100, and it is the last event of the
\* call; a fetch that has not returned Ok (still running, or failed at the
\* request, in the body stream or at a file operation) has sent none.
C21_CompletedOnce ==
    dl.path \in {"fresh", "resume"}
        => /\ dl.result = "ok"
                 => /\ CompletedEvents = {Len(dl.events)}
                    /\ dl.events # <<>>
                    /\ dl.events[Len(dl.events)].percentage = 100
           /\ dl.result # "ok" => CompletedEvents = {}

\* A resumed fetch that sent progress events before it returned Ok.
C21_Witness ==
    /\ dl.pc = "done"
    /\ dl.path = "resume"
    /\ dl.result = "ok"
    /\ Len(dl.events) >= 3

\* A fetch that failed in the body stream after a progress event.
C21_FailureReached ==
    /\ dl.pc = "done"
    /\ dl.path = "fresh"
    /\ dl.result \in {"HttpError", "IoError"}
    /\ Len(dl.events) >= 2

(* ============================= extract_zip ============================ *)

\* The file members of the archive whose names resolve under the output
\* directory, as positions in the archive.
SafeFiles(a) == {i \in DOMAIN a : ~a[i].dir /\ a[i].enclosed}

\* The output path of member i under the output directory.
OutPath(i) == <<"output_dir", i>>

\* The output paths of the raster members (tif, tiff), in archive order.
RasterPaths(a) ==
    LET sel == SelectSeq([i \in DOMAIN a |-> i],
                         LAMBDA i : i \in SafeFiles(a) /\ a[i].ext \in {"tif", "tiff"})
    IN  [k \in DOMAIN sel |-> OutPath(sel[k])]

\* The second call runs after a first call that returned Ok.
SecondAfterOk == ex.pc # "idle" /\ ex.run = 2 /\ ex.first[1].result = "ok"

\* C22: of two calls in succession on the same archive and directory, the
\* first returning Ok, the second writes no file, leaves the directory as
\* the first call left it, and when it returns Ok it returns the raster
\* paths the first call returned.
C22_Idempotent ==
    SecondAfterOk
        => /\ ex.writes = {}
           /\ ex.disk = ex.first[1].disk
           /\ ex.outdir = ex.first[1].outdir
           /\ ex.result = "ok" => ex.extracted_files = ex.first[1].extracted_files

\* The first call wrote a raster file and the second call found the
\* extraction done.
C22_Witness ==
    /\ SecondAfterOk
    /\ ex.pc = "done" /\ ex.result = "ok"
    /\ ex.first[1].writes # {}
    /\ ex.path = "already"
    /\ ex.extracted_files # <<>>

\* The archive can be read: the zip file opens as an archive and every
\* entry can be read.
Readable == ex.zip = "ok" /\ ex.corrupt = 0

\* Before the call every file member of the archive was under the output
\* directory with its declared size.
AllSizedBefore ==
    \A i \in DOMAIN ex.archive :
        ~ex.archive[i].dir => ex.disk0[OutPath(i)] = FileOf(ex.archive[i].size)

\* What the already-extracted path does: no create_dir_all, no write, one
\* event, the raster paths returned.
AlreadyDone ==
    /\ ex.pc = "done" /\ ex.result = "ok"
    /\ ex.mkdirs = 0 /\ ex.writes = {}
    /\ ex.disk = ex.disk0 /\ ex.outdir = ex.outdir0
    /\ ex.events = <<ExtractEv("already extracted", 1, 1, 100)>>
    /\ ex.extracted_files = RasterPaths(ex.archive)

\* The archive has a file member.
HasFile == \E i \in DOMAIN ex.archive : ~ex.archive[i].dir

\* C23 (as claimed): with a readable archive (here: one that has a file
\* member), the extraction is taken as done whenever every file member is
\* there with its declared size, and the full extraction is made
\* otherwise.
C23_DoneWhenAllSized ==
    (ex.pc # "idle" /\ ex.path # "" /\ Readable /\ HasFile)
        => /\ AllSizedBefore => (ex.path = "already" /\ AlreadyDone)
           /\ ~AllSizedBefore => ex.path = "full"

\* C23 (amended): with a readable archive, the extraction is taken as done
\* exactly when every file member is there with its declared size and at
\* least one of them is a raster file; then nothing is created or written,
\* the one "already extracted" event is sent and the raster paths are
\* returned. In every other case the full extraction is made.
C23_DoneWhenAllSizedWithRaster ==
    (ex.pc # "idle" /\ ex.path # "" /\ Readable)
        => /\ (AllSizedBefore /\ RasterPaths(ex.archive) # <<>>)
                 => (ex.path = "already" /\ AlreadyDone)
           /\ ~(AllSizedBefore /\ RasterPaths(ex.archive) # <<>>) => ex.path = "full"

\* A first call found a raster file and another file in place.
C23_Witness ==
    /\ ex.pc = "done" /\ ex.run = 1
    /\ ex.path = "already"
    /\ Len(ex.archive) = 2
    /\ Len(ex.extracted_files) = 1

\* The paths a full extraction has to write: the safe file members that
\* were missing or of another size before the call.
Stale == {OutPath(i) : i \in {k \in SafeFiles(ex.archive) :
                                ex.disk0[OutPath(k)] # FileOf(ex.archive[k].size)}}

\* C24: when the call has returned Ok every safe file member is on disk
\* with its declared size; the full extraction writes the members that
\* were missing or of another size and no other, and a written member has
\* its declared size whatever was there.
C24_AllPresentAfterOk ==
    ex.pc # "idle"
        => /\ ex.writes \subseteq Stale
           /\ \A p \in DiskPaths(ex.archive) :
                 (p \notin ex.writes /\ ~ex.archive[p[2]].dir) => ex.disk[p] = ex.disk0[p]
           /\ (ex.pc = "done" /\ ex.result = "ok")
                 => /\ \A i \in SafeFiles(ex.archive) :
                          ex.disk[OutPath(i)] = FileOf(ex.archive[i].size)
                    /\ ex.writes = Stale

\* A full extraction replaced a stale file and kept a file of the right
\* size.
C24_Witness ==
    /\ ex.pc = "done" /\ ex.result = "ok" /\ ex.path = "full"
    /\ \E p \in ex.writes : ex.disk0[p] = FileOf(1)
    /\ \E i \in SafeFiles(ex.archive) : OutPath(i) \notin ex.writes

\* The members whose names do not resolve under the output directory.
Unsafe(a) == {i \in DOMAIN a : ~a[i].enclosed}

\* C25: nothing is created or written outside the output directory; a
\* call never fails at a member whose name does not resolve under it
\* (unless its entry cannot be read at all); and when the call returns Ok
\* no such member is in the returned list while the other file members
\* are on disk with their declared sizes.
C25_UnsafeSkipped ==
    ex.pc # "idle"
        => /\ \A p \in DiskPaths(ex.archive) : p[1] = "outside" => ex.disk[p] = Absent
           /\ \A p \in ex.writes : p[1] = "output_dir" /\ ex.archive[p[2]].enclosed
           /\ (ex.pc = "done" /\ ex.result # "ok" /\ ex.i \in Unsafe(ex.archive))
                 => ex.corrupt = ex.i
           /\ (ex.pc = "done" /\ ex.result = "ok")
                 => /\ \A k \in DOMAIN ex.extracted_files :
                          /\ ex.extracted_files[k][1] = "output_dir"
                          /\ ex.extracted_files[k][2] \notin Unsafe(ex.archive)
                    /\ \A i \in SafeFiles(ex.archive) :
                          ex.disk[OutPath(i)] = FileOf(ex.archive[i].size)

\* A call skipped its first member and wrote and returned the second.
C25_Witness ==
    /\ ex.pc = "done" /\ ex.result = "ok"
    /\ Len(ex.archive) = 2
    /\ 1 \in Unsafe(ex.archive)
    /\ ex.writes = {OutPath(2)}
    /\ ex.extracted_files = <<OutPath(2)>>

\* C26: on either path a call that returns Ok returns the output paths of
\* the safe file members with extension tif or tiff, in archive order; a
\* member with another extension is on disk and is not returned.
C26_RasterOnly ==
    (ex.pc = "done" /\ ex.result = "ok")
        => /\ ex.path \in {"already", "full"}
           /\ ex.extracted_files = RasterPaths(ex.archive)
           /\ \A i \in SafeFiles(ex.archive) :
                 ex.archive[i].ext \notin {"tif", "tiff"}
                    => /\ ex.disk[OutPath(i)] = FileOf(ex.archive[i].size)
                       /\ \A k \in DOMAIN ex.extracted_files : ex.extracted_files[k] # OutPath(i)

\* A full extraction wrote a text file and a raster file and returned the
\* raster file.
C26_Witness ==
    /\ ex.pc = "done" /\ ex.result = "ok" /\ ex.path = "full"
    /\ Len(ex.archive) = 2
    /\ ex.archive[1].ext = "txt" /\ ex.archive[2].ext = "tiff"
    /\ Cardinality(ex.writes) = 2
    /\ ex.extracted_files = <<OutPath(2)>>

\* The already-extracted path returned two raster files in archive order.
C26_AlreadyReached ==
    /\ ex.pc = "done" /\ ex.result = "ok" /\ ex.path = "already"
    /\ ex.extracted_files = <<OutPath(1), OutPath(2)>>

(* ========================== package_cache_key ========================= *)

\* The characters of the alphabet that are ASCII letters, digits, '-' or '_'.
KeptChars == {"a", "Z", "7", "-", "_"}

\* Two names that differ only where neither has a kept character other
\* than '_'.
SameWhenSanitized(n1, n2) ==
    /\ Len(n1) = Len(n2)
    /\ \A k \in DOMAIN n1 :
          \/ n1[k] = n2[k]
          \/ n1[k] \notin KeptChars \ {"_"} /\ n2[k] \notin KeptChars \ {"_"}

\* C27 (as claimed): two packages with the same download URL have the same
\* key.
C27_SameUrlSameKey ==
    (ck.pc = "keyed" /\ ck.a.download_url = ck.b.download_url)
        => ck.key_a = ck.key_b

\* C27 (amended): two packages with the same download URL and names that
\* are the same when sanitized have the same key, the same zip path and
\* the same extract directory, whatever their other attributes.
C27_SameUrlAndNameSameKey ==
    (ck.pc = "keyed" /\ ck.a.download_url = ck.b.download_url
       /\ SameWhenSanitized(ck.a.package_name, ck.b.package_name))
        => /\ ck.key_a = ck.key_b
           /\ ZipPath(ck.key_a) = ZipPath(ck.key_b)
           /\ ExtractDir(ck.key_a) = ExtractDir(ck.key_b)

\* Two packages of one URL, of different sizes and with names that differ
\* in a replaced character, got one key.
C27_Witness ==
    /\ ck.pc = "keyed"
    /\ ck.a.download_url = ck.b.download_url
    /\ ck.a.package_name = <<"a", "/", "Z">> /\ ck.b.package_name = <<"a", " ", "Z">>
    /\ ck.a.size_gb # ck.b.size_gb
    /\ ck.key_a = ck.key_b

\* C28: packages with equal name and URL have equal keys, whatever their
\* other attributes, and a package has the same key at every call;
\* packages with the same name and different URLs have different keys.
C28_KeyOfNameAndUrl ==
    ck.pc = "keyed"
        => /\ (ck.a.package_name = ck.b.package_name /\ ck.a.download_url = ck.b.download_url)
                 => ck.key_a = ck.key_b
           /\ ck.key_a_again = ck.key_a
           /\ (ck.a.package_name = ck.b.package_name /\ ck.a.download_url # ck.b.download_url)
                 => ck.key_a # ck.key_b
           /\ Len(ck.key_a) = Len(ck.a.package_name) + 1 + HashWidth

\* Two packages of one name and of different URLs and sizes got different
\* keys.
C28_Witness ==
    /\ ck.pc = "keyed"
    /\ ck.a.package_name = ck.b.package_name
    /\ ck.a.download_url # ck.b.download_url
    /\ ck.a.size_gb # ck.b.size_gb
    /\ ck.key_a # ck.key_b

\* C29: the result of sanitize_for_path has the length of the input, the
\* input's character wherever that is an ASCII letter, a digit, '-' or
\* '_', and '_' everywhere else; it holds only such characters, and
\* sanitizing it again changes nothing.
C29_Sanitize ==
    ck.pc = "sanitized"
        => /\ Len(ck.output) = Len(ck.input)
           /\ \A k \in DOMAIN ck.input :
                 /\ ck.input[k] \in KeptChars => ck.output[k] = ck.input[k]
                 /\ ck.input[k] \notin KeptChars => ck.output[k] = "_"
           /\ \A k \in DOMAIN ck.output : ck.output[k] \in KeptChars
           /\ ck.again = ck.output

\* A name with a separator and a letter that is not ASCII was sanitized.
C29_Witness ==
    /\ ck.pc = "sanitized"
    /\ ck.input = <<"Z", "/", "é">>
    /\ ck.output = <<"Z", "_", "_">>

(* ==================== two jobs on the cache of a package ============== *)

\* Job B is at a package with the name and the URL of A's package.
SamePackageInB ==
    /\ ru.pc # "idle" /\ ru.job = "B"
    /\ ru.pkg.package_name = PackageA.package_name
    /\ ru.pkg.download_url = PackageA.download_url

\* C30 (as claimed): job B, at the package job A has downloaded and
\* extracted, has A's zip path and extract directory; with the remote
\* size known its download takes the short-circuit path and makes no body
\* request, its extraction takes the already-extracted path and writes no
\* file, and it returns the raster paths A's extraction returned.
C30_CacheReuse ==
    SamePackageInB
        => /\ ru.zip_path = ru.a[1].zip_path
           /\ ru.extract_dir = ru.a[1].extract_dir
           /\ (ru.pc = "B_download" /\ Chosen /\ dl.expected_size > 0)
                 => (dl.path = "short" /\ BodyRequests = {})
           /\ (ru.pc = "B_extract" /\ ru.a[1].b_expected_size > 0 /\ ex.path # "")
                 => (ex.path = "already" /\ ex.writes = {})
           /\ (ru.pc = "B_extract" /\ ru.a[1].b_expected_size > 0
                 /\ ex.pc = "done" /\ ex.result = "ok")
                 => ex.extracted_files = ru.a[1].tiff_files

\* Job B went through both short paths on what A had left.
C30_ReuseReached ==
    /\ SamePackageInB
    /\ ru.pc = "B_extract"
    /\ ru.a[1].b_path = "short"
    /\ ex.pc = "done" /\ ex.path = "already"
    /\ ex.extracted_files = ru.a[1].tiff_files

(* ============================ cache entries =========================== *)

\* C31 (as claimed): a file that is at the zip path stays there through
\* every step of a call of download_with_progress.
C31_NeverDeleted ==
    [][(dl.pc # "idle" /\ dl.exists) => dl'.exists]_vars

(* ================== run_download_job and merge_to_cog ================= *)
\* One job, looked at for the data it hands on: what each package's
\* extract_zip returns, what merge_to_cog is called with, and the
\* commands merge_to_cog runs.

\* Option<T>: None, Some(x).
None == <<>>
Some(x) == <<x>>

\* (mutant) the string is compared as it was sent.
ToLowercase_Identity(s) == s

\* str::to_lowercase, a string being the sequence of its characters: the
\* ASCII capitals become small letters, other characters stay.
ToLowercase(s) ==
    LET upper == <<"A","B","C","D","E","F","G","H","I","J","K","L","M",
                   "N","O","P","Q","R","S","T","U","V","W","X","Y","Z">>
        lower == <<"a","b","c","d","e","f","g","h","i","j","k","l","m",
                   "n","o","p","q","r","s","t","u","v","w","x","y","z">>
        low(c) == IF \E k \in DOMAIN upper : upper[k] = c
                  THEN lower[CHOOSE k \in DOMAIN upper : upper[k] = c]
                  ELSE c
    IN  [k \in DOMAIN s |-> low(s[k])]

\* enum CompressionType
CompressionTypes == {"Zstd", "Lzma", "Deflate", "Lzw"}

\* CompressionType::from_str
FromStr(s) ==
    LET l == ToLowercase(s)
    IN  CASE l = <<"z","s","t","d">> -> "Zstd"
          [] l = <<"l","z","m","a">> -> "Lzma"
          [] l = <<"l","z","w">> -> "Lzw"
          [] OTHER -> "Deflate"

\* CompressionType::to_gdal_string
ToGdalString(c) ==
    CASE c = "Zstd" -> "ZSTD"
      [] c = "Lzma" -> "LZMA"
      [] c = "Deflate" -> "DEFLATE"
      [] c = "Lzw" -> "LZW"

\* The compression strings a request is sent with.
CompressionStrings ==
    {<<"z","s","t","d">>, <<"Z","S","T","D">>, <<"L","z","m","a">>,
     <<"l","z","w">>, <<"d","e","f","l","a","t","e">>, <<"g","z","i","p">>,
     <<"z","s","t","d"," ">>, <<>>}

\* ClipExtentRequest as <<min_x, min_y, max_x, max_y>>.
ClipExtents == {None, Some(<<1, 2, 3, 4>>)}

\* clip_extent.map(|c| ClipExtent { min_x: c.min_x, .. })
ClipOf(c) ==
    IF c = None THEN None ELSE Some(<<c[1][1], c[1][2], c[1][3], c[1][4]>>)

\* What extract_zip can return for package p: the paths of some of the
\* members of its archive, in member order.
RasterLists(p) ==
    LET picks == UNION {[1 .. n -> 1 .. MaxMembers] : n \in 0 .. MaxMembers}
    IN  {[k \in DOMAIN s |-> [pkg |-> p, member |-> s[k]]] :
            s \in {s \in picks : \A a, b \in DOMAIN s : a < b => s[a] < s[b]}}

\* run_download_job is entered with n packages.
MergeJob(n, clip, compression) ==
    [pc |-> "loop", n |-> n, clip_extent |-> clip, compression |-> compression,
     i |-> 0, all_tiff_files |-> <<>>, returned |-> <<>>, merge_calls |-> <<>>,
     commands |-> <<>>, exits |-> <<>>, events |-> <<>>, output |-> "absent",
     result |-> ""]

InitMerge ==
    /\ uuids = 0
    /\ downloads = <<>>
    /\ writer = NoOne
    /\ readers = {}
    /\ sd = [r \in StartReqs |-> [pc |-> 1, id |-> UnknownId, packages |-> <<>>, result |-> ""]]
    /\ dp = [q \in ProgressReqs |-> [pc |-> "idle", id |-> UnknownId, result |-> "", sender |-> 0,
                                 next |-> 0, first |-> 0, got |-> <<>>]]
    /\ df = [f \in FileReqs |-> [pc |-> "idle", id |-> UnknownId, result |-> "", job |-> <<>>,
                                 body |-> "", filename |-> <<>>]]
    /\ task = [j \in JobIds |-> IdleTask]
    /\ sent = [j \in JobIds |-> <<>>]
    /\ calls = [j \in JobIds |-> <<>>]
    /\ output = [j \in JobIds |-> "absent"]
    /\ dl = IdleFetch
    /\ ex = Idle
    /\ ck = Idle
    /\ ru = Idle
    /\ qp = Idle
    /\ rc = Idle
    /\ \E n \in 0 .. MaxPkgs, clip \in ClipExtents, s \in CompressionStrings :
          mg = MergeJob(n, clip, s)

\* (mutant) the new paths go in front of the ones collected so far.
Extend_Front(all, files) == files \o all

\* all_tiff_files.extend(tiff_files)
Extend(all, files) == all \o files

\* One round of the for loop: download_with_progress and extract_zip of
\* the next package return Ok.
job_package_ok ==
    /\ mg.pc = "loop" /\ mg.i < mg.n
    /\ \E files \in RasterLists(mg.i + 1) :
          mg' = [mg EXCEPT !.i = @ + 1,
                           !.returned = Append(@, files),
                           !.all_tiff_files = Extend(@, files)]
    /\ UNCHANGED <<sysvars, dl, ex, ck, ru, qp, rc>>

\* One of the two returns Err: map_err(..)? returns it.
job_package_err ==
    /\ mg.pc = "loop" /\ mg.i < mg.n
    /\ \E e \in {"HttpError", "IoError", "ZipError", "DirectoryError"} :
          mg' = [mg EXCEPT !.pc = "done", !.result = e]
    /\ UNCHANGED <<sysvars, dl, ex, ck, ru, qp, rc>>

\* After the loop: clip and comp are built and merge_to_cog is called.
job_merge_call ==
    /\ mg.pc = "loop" /\ mg.i = mg.n
    /\ mg' = [mg EXCEPT !.pc = "merge",
                        !.merge_calls = Append(@, [input_files |-> mg.all_tiff_files,
                                                   clip_extent |-> ClipOf(mg.clip_extent),
                                                   compression |-> FromStr(mg.compression)])]
    /\ UNCHANGED <<sysvars, dl, ex, ck, ru, qp, rc>>

\* The arguments merge_to_cog is running with.
MergeArgs == mg.merge_calls[Len(mg.merge_calls)]

\* (mutant) the emptiness test comes after the first event.
merge_to_cog_no_input_Late ==
    /\ mg.pc = "merge" /\ MergeArgs.input_files = <<>>
    /\ mg' = [mg EXCEPT !.pc = "done", !.result = "NoInputFiles",
                        !.events = Append(@, ProcessingEv("merging", 0))]
    /\ UNCHANGED <<sysvars, dl, ex, ck, ru, qp, rc>>

\* if input_files.is_empty() { return Err(NoInputFiles) }
merge_to_cog_no_input ==
    /\ mg.pc = "merge" /\ MergeArgs.input_files = <<>>
    /\ mg' = [mg EXCEPT !.pc = "done", !.result = "NoInputFiles"]
    /\ UNCHANGED <<sysvars, dl, ex, ck, ru, qp, rc>>

\* The command line of gdalwarp: the compression option, the -te corners
\* when there is a clip, the input files in order.
WarpCommand(a) ==
    [program |-> "gdalwarp", compress |-> ToGdalString(a.compression),
     te |-> a.clip_extent, inputs |-> a.input_files]

\* The command line of gdal_translate: from the temporary file to
\* output_path, the same compression option.
TranslateCommand(a) ==
    [program |-> "gdal_translate", compress |-> ToGdalString(a.compression),
     te |-> None, inputs |-> <<"temp_path">>]

\* The 0% and 10% events, then gdalwarp is run.
merge_to_cog_warp ==
    /\ mg.pc = "merge" /\ MergeArgs.input_files # <<>>
    /\ mg' = [mg EXCEPT !.pc = "warp",
                        !.events = @ \o <<ProcessingEv("merging", 0), ProcessingEv("merging", 10)>>,
                        !.commands = Append(@, WarpCommand(MergeArgs))]
    /\ UNCHANGED <<sysvars, dl, ex, ck, ru, qp, rc>>

\* How a Command::output() call can end, and what merge_to_cog returns
\* then: the program cannot be run ("spawn"), `?` returns the io::Error as
\* IoError; it exits with a non-zero status ("nonzero"), a GdalError.
ToolFailures == {"spawn", "nonzero"}

ToolError(o) == IF o = "spawn" THEN "IoError" ELSE "GdalError"

\* (mutant) gdal_translate is run whatever became of gdalwarp.
warp_result_Ignored ==
    /\ mg.pc = "warp"
    /\ \E o \in ToolFailures \cup {"ok"} :
          mg' = [mg EXCEPT !.pc = "translate",
                           !.exits = Append(@, o),
                           !.events = Append(@, ProcessingEv("creating_cog", 60)),
                           !.commands = Append(@, TranslateCommand(MergeArgs))]
    /\ UNCHANGED <<sysvars, dl, ex, ck, ru, qp, rc>>

\* gdalwarp returns: failure, or the 60% event and gdal_translate is run.
warp_result ==
    /\ mg.pc = "warp"
    /\ \/ \E o \in ToolFailures :
             mg' = [mg EXCEPT !.pc = "done", !.exits = Append(@, o), !.result = ToolError(o)]
       \/ mg' = [mg EXCEPT !.pc = "translate",
                           !.exits = Append(@, "ok"),
                           !.events = Append(@, ProcessingEv("creating_cog", 60)),
                           !.commands = Append(@, TranslateCommand(MergeArgs))]
    /\ UNCHANGED <<sysvars, dl, ex, ck, ru, qp, rc>>

\* gdal_translate returns: failure, with or without a file left at
\* output_path, or the file is whole, the 100% event and Ok.
translate_result ==
    /\ mg.pc = "translate"
    /\ \/ \E o \in ToolFailures, f \in {"absent", "partial"} :
             mg' = [mg EXCEPT !.pc = "done", !.exits = Append(@, o),
                              !.result = ToolError(o), !.output = f]
       \/ mg' = [mg EXCEPT !.pc = "complete", !.exits = Append(@, "ok"),
                           !.output = "complete",
                           !.events = Append(@, ProcessingEv("completed", 100))]
    /\ UNCHANGED <<sysvars, dl, ex, ck, ru, qp, rc>>

\* merge_to_cog returned Ok: the Complete event, Ok(()).
job_complete ==
    /\ mg.pc = "complete"
    /\ mg' = [mg EXCEPT !.pc = "done", !.result = "ok",
                        !.events = Append(@, CompleteEv(CompleteFilename))]
    /\ UNCHANGED <<sysvars, dl, ex, ck, ru, qp, rc>>

NextMerge ==
    \/ job_package_ok
    \/ job_package_err
    \/ job_merge_call
    \/ merge_to_cog_no_input
    \/ merge_to_cog_warp
    \/ warp_result
    \/ translate_result
    \/ job_complete

SpecMerge == InitMerge /\ [][NextMerge]_vars

(* ========================= the merge invocation ======================= *)

\* The lists of a sequence of lists, one after the other.
RECURSIVE Flatten(_)
Flatten(ss) == IF ss = <<>> THEN <<>> ELSE ss[1] \o Flatten(Tail(ss))

\* C33: merge_to_cog is called at most once in a job, and when it is
\* called every package's download and extraction has returned Ok, its
\* input list is what the extractions returned, one package after the
\* other in package order, and its clip rectangle is the request's, which
\* also is the one gdalwarp is run with.
C33_MergeInputs ==
    /\ Len(mg.merge_calls) <= 1
    /\ mg.merge_calls # <<>> =>
          /\ Len(mg.returned) = mg.n
          /\ mg.merge_calls[1].input_files = Flatten(mg.returned)
          /\ mg.merge_calls[1].clip_extent = mg.clip_extent
    /\ \A k \in DOMAIN mg.commands :
          mg.commands[k].program = "gdalwarp" =>
             /\ mg.commands[k].te = mg.clip_extent
             /\ mg.commands[k].inputs = Flatten(mg.returned)

\* gdalwarp was run for a clipped request of several packages, one of
\* which gave two rasters.
C33_Witness ==
    /\ mg.pc = "warp"
    /\ mg.n >= 2
    /\ mg.clip_extent # None
    /\ \A k \in DOMAIN mg.returned : mg.returned[k] # <<>>
    /\ \E k \in DOMAIN mg.returned : Len(mg.returned[k]) = 2

\* C34: a job without packages, or whose extractions all returned no
\* raster, ends with NoInputFiles: no Processing and no Complete event was
\* sent, no external command was run, and nothing is at output_path.
C34_NoInput ==
    (mg.pc = "done" /\ Len(mg.returned) = mg.n /\ Flatten(mg.returned) = <<>>) =>
        /\ mg.result = "NoInputFiles"
        /\ mg.events = <<>>
        /\ mg.commands = <<>>
        /\ mg.output = "absent"

\* Both cases ended: no package, and packages without a raster.
C34_Witness ==
    /\ mg.pc = "done" /\ mg.result = "NoInputFiles"
    /\ mg.n > 0 /\ Len(mg.returned) = mg.n

C34_WitnessEmpty ==
    /\ mg.pc = "done" /\ mg.result = "NoInputFiles"
    /\ mg.n = 0

(* ======================== the compression selector ==================== *)

\* s is the word w in small or capital letters, letter by letter.
IsWord(s, w) ==
    LET caps == [c \in {"z","s","t","d","l","m","a","w"} |->
                    CASE c = "z" -> "Z" [] c = "s" -> "S" [] c = "t" -> "T"
                      [] c = "d" -> "D" [] c = "l" -> "L" [] c = "m" -> "M"
                      [] c = "a" -> "A" [] c = "w" -> "W"]
    IN  /\ Len(s) = Len(w)
        /\ \A k \in DOMAIN w : s[k] = w[k] \/ s[k] = caps[w[k]]

\* The mode the claim gives for the request string s.
ClaimedMode(s) ==
    CASE IsWord(s, <<"z","s","t","d">>) -> "Zstd"
      [] IsWord(s, <<"l","z","m","a">>) -> "Lzma"
      [] IsWord(s, <<"l","z","w">>) -> "Lzw"
      [] OTHER -> "Deflate"

\* C35: the mode merge_to_cog is called with is Zstd, Lzma or Lzw for
\* the request strings "zstd", "lzma", "lzw" in any case and Deflate for
\* every other string; the COMPRESS option of a command that is run names
\* that mode and no other.
C35_Selector ==
    /\ \A k \in DOMAIN mg.merge_calls :
          /\ mg.merge_calls[k].compression \in CompressionTypes
          /\ mg.merge_calls[k].compression = ClaimedMode(mg.compression)
    /\ \A k \in DOMAIN mg.commands :
          \A c \in CompressionTypes :
              ToGdalString(c) = mg.commands[k].compress <=> c = ClaimedMode(mg.compression)

\* gdal_translate was run for a request with "ZSTD" in capitals.
C35_Witness ==
    /\ mg.compression = <<"Z","S","T","D">>
    /\ Len(mg.commands) = 2
    /\ mg.commands[2].compress = "ZSTD"

\* ... and for a request with the empty string.
C35_WitnessDefault ==
    /\ mg.compression = <<>>
    /\ Len(mg.commands) = 2
    /\ mg.commands[2].compress = "DEFLATE"

(* ========================== the two merge steps ======================= *)

\* The percentages of the Processing events sent so far.
Percentages ==
    LET processing == SelectSeq(mg.events, LAMBDA e : e.kind = "Processing")
    IN  [k \in DOMAIN processing |-> processing[k].percentage]

\* The programs run so far.
Programs == [k \in DOMAIN mg.commands |-> mg.commands[k].program]

\* What the claim says of the events and of the order of the two steps.
StepsInOrder ==
    /\ \E n \in 0 .. 4 : Percentages = SubSeq(<<0, 10, 60, 100>>, 1, n)
    /\ \E n \in 0 .. 2 : Programs = SubSeq(<<"gdalwarp", "gdal_translate">>, 1, n)
    /\ Len(mg.exits) \in {Len(mg.commands), Len(mg.commands) - 1}
    /\ Len(mg.commands) = 2 => mg.exits[1] = "ok"
    /\ (\E k \in DOMAIN mg.events : mg.events[k].percentage = 100) =>
          (Len(mg.exits) = 2 /\ mg.exits[1] = "ok" /\ mg.exits[2] = "ok")
    /\ \A k \in DOMAIN mg.exits :
          mg.exits[k] # "ok" =>
             /\ mg.pc = "done" /\ k = Len(mg.exits)
             /\ Percentages = SubSeq(<<0, 10, 60, 100>>, 1, k + 1)

\* C38 (as claimed): ... and a step that fails makes merge_to_cog return
\* the GdalError.
C38_ToolError ==
    /\ StepsInOrder
    /\ \A k \in DOMAIN mg.exits : mg.exits[k] # "ok" => mg.result = "GdalError"

\* C38 (amended): merge_to_cog with a non-empty input runs gdalwarp, then
\* gdal_translate only after gdalwarp succeeded; its Processing events are
\* 0, 10, 60, 100 in this order, the 100% one only after both succeeded;
\* a step that exits with a non-zero status makes it return the GdalError,
\* a step whose program cannot be run the IoError, and no Processing event
\* follows either.
C38_MergeSteps ==
    /\ StepsInOrder
    /\ \A k \in DOMAIN mg.exits :
          /\ mg.exits[k] = "nonzero" => mg.result = "GdalError"
          /\ mg.exits[k] = "spawn" => mg.result = "IoError"

\* gdal_translate exited with a non-zero status after gdalwarp succeeded.
C38_Witness ==
    /\ mg.pc = "done"
    /\ mg.exits = <<"ok", "nonzero">>
    /\ Percentages = <<0, 10, 60>>

(* ========================= extraction progress ======================== *)

\* C36 (as claimed): a full extraction of an archive with members that
\* returned Ok has sent events with strictly increasing percentages, one
\* for each member whose percentage is 5 points or more over the last one
\* sent, and the one of the final member, with percentage 100, in any case.
C36_FinalEvent ==
    (ex.pc = "done" /\ ex.result = "ok" /\ ex.path = "full" /\ ex.archive # <<>>) =>
        /\ \A k \in 1 .. Len(ex.events) - 1 :
              ex.events[k].percentage < ex.events[k + 1].percentage
        /\ ex.events[Len(ex.events)].percentage = 100
        /\ ex.events[Len(ex.events)].bytes_downloaded = Len(ex.archive)

(* ========================= extraction failures ======================== *)

\* A call of extract_zip has returned an error.
Aborted == ex.pc = "done" /\ ex.result # "ok"

\* ... at member i: the loop was left in turn i.
AbortedAtMember == Aborted /\ ex.zip = "ok" /\ ex.i > 0

\* What holds of every failure: one of the three kinds, and the call is
\* over where it failed.
AbortsExtraction ==
    Aborted =>
        /\ ex.result \in {"IoError", "ZipError", "DirectoryError"}
        /\ ex.i <= Len(ex.archive)
        /\ ex.zip = "notzip" => ex.result = "ZipError"
        /\ (ex.zip = "ok" /\ ex.i = 0) => ex.result = "DirectoryError"
        /\ (AbortedAtMember /\ ex.corrupt = ex.i) => ex.result = "ZipError"
        /\ (AbortedAtMember /\ ex.corrupt # ex.i /\ ex.archive[ex.i].dir) =>
              ex.result = "DirectoryError"

C37_OpenFailed ==
    /\ Aborted /\ ex.zip = "missing" /\ ex.result = "IoError"

(* ========================= the channel's capacity ===================== *)

\* What holds in every state of a subscriber q and the channel of its
\* job: up to Capacity unread events it has lost nothing and its next
\* receive yields the next event; further behind its next receive ends the
\* stream; an ended stream was left behind, short of the Complete event.
RingOf(q) ==
    LET log == sent[dp[q].sender]
    IN  /\ (dp[q].pc = "streaming" /\ Behind(q) <= Capacity) =>
              /\ dp[q].got = SubSeq(log, dp[q].first, Len(log) - Behind(q))
              /\ Behind(q) > 0 => Recv(log, dp[q].next) = <<"ok", log[dp[q].next]>>
        /\ (dp[q].pc = "streaming" /\ Behind(q) > Capacity) =>
              /\ Recv(log, dp[q].next) = <<"lagged">>
              /\ ENABLED download_progress_lagged(q)
        /\ dp[q].pc = "ended" =>
              /\ Behind(q) > Capacity
              /\ Count(dp[q].got, "Complete") = 0
              /\ \A p \in Subscribed \ {q} :
                    (dp[p].sender = dp[q].sender /\ dp[p].pc = "streaming"
                        /\ Behind(p) > 0 /\ Behind(p) <= Capacity)
                    => ENABLED download_progress_recv(p)
              /\ Running(dp[q].sender) => ENABLED BusTaskNext(dp[q].sender)

\* C39: the channel keeps Capacity undelivered events for each subscriber
\* (64 in the program): a subscriber more than that many events behind has
\* its stream ended by its next receive and gets nothing after that, not
\* the Complete event either, while the task and the other subscribers go
\* on; a subscriber that is within that many events has lost none.
C39_Capacity ==
    /\ [](\A q \in Subscribed : RingOf(q))
    /\ [][\A q \in DOMAIN dp : dp[q].pc = "ended" => dp'[q] = dp[q]]_vars

\* A subscriber received the first event of its job and was then left
\* behind; the job ran on to its Complete event, which another subscriber
\* received.
C39_Witness ==
    \E q, p \in Subscribed :
        /\ dp[q].pc = "ended" /\ Len(dp[q].got) = 1 /\ dp[q].first = 1
        /\ dp[p].sender = dp[q].sender /\ dp[p].pc = "streaming"
        /\ Count(dp[p].got, "Complete") = 1
        /\ task[dp[q].sender].pc = "ok"

(* ============================ query_by_extent ========================= *)
\* One call of PackageClient::query_by_extent against a remote index.

\* The remote index: its features in the server's order, each with its
\* fields ("ok") or without a package name or download link ("bad").
Indexes == UNION {[1 .. n -> {"ok", "bad"}] : n \in 0 .. MaxFeatures}

\* The server's answer to resultOffset = offset and resultRecordCount =
\* MaxRecordCount: the positions of the features of that page.
ServerPage(index, offset) ==
    LET rest == IF offset < Len(index) THEN Len(index) - offset ELSE 0
        n == IF rest < MaxRecordCount THEN rest ELSE MaxRecordCount
    IN  [k \in 1 .. n |-> offset + k]

\* filter_map(feature_to_package): the features without the fields are
\* dropped, the others become packages (named by their position here).
FeaturesToPackages(index, page) == SelectSeq(page, LAMBDA k : index[k] = "ok")

InitQuery ==
    /\ uuids = 0
    /\ downloads = <<>>
    /\ writer = NoOne
    /\ readers = {}
    /\ sd = [r \in StartReqs |-> [pc |-> 1, id |-> UnknownId, packages |-> <<>>, result |-> ""]]
    /\ dp = [q \in ProgressReqs |-> [pc |-> "idle", id |-> UnknownId, result |-> "", sender |-> 0,
                                 next |-> 0, first |-> 0, got |-> <<>>]]
    /\ df = [f \in FileReqs |-> [pc |-> "idle", id |-> UnknownId, result |-> "", job |-> <<>>,
                                 body |-> "", filename |-> <<>>]]
    /\ task = [j \in JobIds |-> IdleTask]
    /\ sent = [j \in JobIds |-> <<>>]
    /\ calls = [j \in JobIds |-> <<>>]
    /\ output = [j \in JobIds |-> "absent"]
    /\ dl = IdleFetch
    /\ ex = Idle
    /\ ck = Idle
    /\ ru = Idle
    /\ mg = Idle
    /\ rc = Idle
    /\ \E index \in Indexes :
          qp = [pc |-> "loop", index |-> index, offset |-> 0, all_packages |-> <<>>,
                requests |-> <<>>, raw_counts |-> <<>>, result |-> ""]

\* One turn of the loop: query_page(bbox, offset) returns its packages,
\* they are added, and the loop ends on fewer than MAX_RECORD_COUNT of
\* them or goes on at offset + count.
query_by_extent_page ==
    /\ qp.pc = "loop"
    /\ LET page == ServerPage(qp.index, qp.offset)
           packages == FeaturesToPackages(qp.index, page)
           count == Len(packages)
       IN  qp' = [qp EXCEPT !.requests = Append(@, qp.offset),
                            !.raw_counts = Append(@, Len(page)),
                            !.all_packages = @ \o packages,
                            !.pc = IF count < MaxRecordCount THEN "done" ELSE "loop",
                            !.result = IF count < MaxRecordCount THEN "ok" ELSE "",
                            !.offset = IF count < MaxRecordCount THEN @ ELSE @ + count]
    /\ UNCHANGED <<sysvars, dl, ex, ck, ru, mg, rc>>

\* The request fails, the status is an error or the body is no answer:
\* query_page's `?`, and query_by_extent's, return the error.
query_by_extent_fail ==
    /\ qp.pc = "loop"
    /\ qp' = [qp EXCEPT !.pc = "done", !.result = "err",
                        !.requests = Append(@, qp.offset)]
    /\ UNCHANGED <<sysvars, dl, ex, ck, ru, mg, rc>>

NextQuery ==
    \/ query_by_extent_page
    \/ query_by_extent_fail

SpecQuery == InitQuery /\ [][NextQuery]_vars

\* The features of the index that have their fields, in the index's order.
ValidPackages == SelectSeq([k \in DOMAIN qp.index |-> k], LAMBDA k : qp.index[k] = "ok")

\* C40 (as claimed): a call that returns Ok has asked for pages at offsets
\* that advance by the number of records the server returned, each page
\* before the last one a full one, and returns every package of the index
\* that has its fields, once, whether or not features were dropped from a
\* page.
C40_Pagination ==
    /\ \A k \in DOMAIN qp.raw_counts :
          /\ qp.requests[k] = (k - 1) * MaxRecordCount
          /\ k < Len(qp.raw_counts) => qp.raw_counts[k] = MaxRecordCount
    /\ (qp.pc = "done" /\ qp.result = "ok") => qp.all_packages = ValidPackages

(* ================== two jobs on one zip path at once ================== *)
\* Two run_download_job tasks name the same package, so both call
\* download_with_progress with the same output_path while the cache is
\* empty. The path names a file or nothing; a file keeps its bytes for
\* the handles that are open on it when the path is removed or created
\* anew, and each handle writes at its own position.

RaceJobs == {1, 2}

\* One call, before its first step.
RaceCall ==
    [pc |-> "start", expected_size |-> 0, partial_size |-> 0, path |-> "",
     body |-> <<>>, handle |-> 0, pos |-> 0, result |-> ""]

InitRace ==
    /\ uuids = 0
    /\ downloads = <<>>
    /\ writer = NoOne
    /\ readers = {}
    /\ sd = [r \in StartReqs |-> [pc |-> 1, id |-> UnknownId, packages |-> <<>>, result |-> ""]]
    /\ dp = [q \in ProgressReqs |-> [pc |-> "idle", id |-> UnknownId, result |-> "", sender |-> 0,
                                 next |-> 0, first |-> 0, got |-> <<>>]]
    /\ df = [f \in FileReqs |-> [pc |-> "idle", id |-> UnknownId, result |-> "", job |-> <<>>,
                                 body |-> "", filename |-> <<>>]]
    /\ task = [j \in JobIds |-> IdleTask]
    /\ sent = [j \in JobIds |-> <<>>]
    /\ calls = [j \in JobIds |-> <<>>]
    /\ output = [j \in JobIds |-> "absent"]
    /\ dl = IdleFetch
    /\ ex = Idle
    /\ ck = Idle
    /\ ru = Idle
    /\ mg = Idle
    /\ qp = Idle
    /\ \E n \in 1 .. MaxSize :
          rc = [remote |-> RemoteBody(n), zip |-> 0, files |-> <<>>,
                job |-> [j \in RaceJobs |-> RaceCall], shared |-> FALSE]

\* The file at the zip path as is_download_complete and partial_size of
\* call j see it.
AtZipPath(j) ==
    [exists |-> rc.zip # 0, file |-> IF rc.zip # 0 THEN rc.files[rc.zip] ELSE <<>>,
     expected_size |-> rc.job[j].expected_size]

RaceFailed(j, e) == [rc EXCEPT !.job[j].pc = "done", !.job[j].result = e]

\* get_expected_size(url).await.unwrap_or(0)
race_probe(j) ==
    /\ rc.job[j].pc = "start"
    /\ \E size \in {0, Len(rc.remote)} :
          rc' = [rc EXCEPT !.job[j].pc = "check", !.job[j].expected_size = size]
    /\ UNCHANGED <<sysvars, dl, ex, ck, ru, mg, qp>>

\* is_download_complete: the file has the expected size now, Ok(()); or
\* it has not and the call goes on.
race_check(j) ==
    /\ rc.job[j].pc = "check"
    /\ LET d == AtZipPath(j)
       IN  rc' = IF IsDownloadComplete(d)
                 THEN [rc EXCEPT !.job[j].pc = "done", !.job[j].path = "short",
                                 !.job[j].result = "ok"]
                 ELSE [rc EXCEPT !.job[j].pc = "choose"]
    /\ UNCHANGED <<sysvars, dl, ex, ck, ru, mg, qp>>

\* partial_size is read, then download_resume is called for a shorter
\* file when the size is known, else a non-empty file is removed and
\* download_fresh is called.
race_choose(j) ==
    /\ rc.job[j].pc = "choose"
    /\ LET d == AtZipPath(j)
           resume == SupportsRange(d) /\ PartialSize(d) < d.expected_size
       IN  rc' = [rc EXCEPT !.job[j].pc = "request",
                            !.job[j].partial_size = PartialSize(d),
                            !.job[j].path = IF resume THEN "resume" ELSE "fresh",
                            !.zip = IF ~resume /\ PartialSize(d) > 0 THEN 0 ELSE @]
    /\ UNCHANGED <<sysvars, dl, ex, ck, ru, mg, qp>>

\* The GET of download_fresh, or of download_resume with Range:
\* bytes=<partial_size>-, answered with the resource or with the rest of
\* it.
race_request(j) ==
    /\ rc.job[j].pc = "request"
    /\ LET from == IF rc.job[j].path = "resume" THEN rc.job[j].partial_size ELSE 0
       IN  rc' = [rc EXCEPT !.job[j].pc = "open",
                            !.job[j].body = SubSeq(rc.remote, from + 1, Len(rc.remote))]
    /\ UNCHANGED <<sysvars, dl, ex, ck, ru, mg, qp>>

\* (mutant) the file is opened under a lock that one call holds at a time.
CanOpen_Exclusive(j) == \A k \in RaceJobs \ {j} : rc.job[k].pc # "stream"

\* File::create and OpenOptions::open take no lock and test no other
\* handle.
CanOpen(j) == TRUE

\* download_fresh: File::create empties the file at the path or makes a
\* new one, the handle at position 0. download_resume: open, an error
\* when nothing is at the path, and seek(SeekFrom::End(0)). shared says
\* whether a call has opened the file while the other was writing it.
race_open(j) ==
    /\ rc.job[j].pc = "open"
    /\ CanOpen(j)
    /\ LET r == [rc EXCEPT !.job[j].pc = "stream", !.job[j].handle = rc.zip,
                           !.shared = @ \/ \E k \in RaceJobs \ {j} :
                                              rc.job[k].pc = "stream" /\ rc.job[k].handle = rc.zip]
       IN  rc' = IF rc.job[j].path = "fresh"
                 THEN IF rc.zip # 0
                      THEN [r EXCEPT !.files[rc.zip] = <<>>, !.job[j].pos = 0]
                      ELSE [r EXCEPT !.files = Append(@, <<>>), !.zip = Len(rc.files) + 1,
                                     !.job[j].handle = Len(rc.files) + 1, !.job[j].pos = 0]
                 ELSE IF rc.zip # 0
                      THEN [r EXCEPT !.job[j].pos = Len(rc.files[rc.zip])]
                      ELSE RaceFailed(j, "IoError")
    /\ UNCHANGED <<sysvars, dl, ex, ck, ru, mg, qp>>

\* write at position pos of a file: the bytes from there on are
\* replaced, the file grows as needed, a gap reads as zeros.
WriteAt(bytes, pos, data) ==
    LET end == pos + Len(data)
        n == IF end > Len(bytes) THEN end ELSE Len(bytes)
    IN  [k \in 1 .. n |-> IF k > pos /\ k <= end THEN data[k - pos]
                          ELSE IF k <= Len(bytes) THEN bytes[k] ELSE 0]

\* stream.next() gives a chunk and write_all puts it at the handle's
\* position.
race_chunk(j) ==
    /\ rc.job[j].pc = "stream"
    /\ \E k \in 1 .. Len(rc.job[j].body) :
          LET h == rc.job[j].handle
          IN  rc' = [rc EXCEPT !.files[h] = WriteAt(@, rc.job[j].pos,
                                                    SubSeq(rc.job[j].body, 1, k)),
                               !.job[j].pos = @ + k,
                               !.job[j].body = SubSeq(@, k + 1, Len(@))]
    /\ UNCHANGED <<sysvars, dl, ex, ck, ru, mg, qp>>

\* The stream is at its end: Ok(()).
race_end(j) ==
    /\ rc.job[j].pc = "stream"
    /\ rc.job[j].body = <<>>
    /\ rc' = [rc EXCEPT !.job[j].pc = "done", !.job[j].result = "ok"]
    /\ UNCHANGED <<sysvars, dl, ex, ck, ru, mg, qp>>

\* The request, a chunk or a write fails.
race_fail(j) ==
    /\ rc.job[j].pc \in {"request", "stream"}
    /\ \E e \in {"HttpError", "IoError"} : rc' = RaceFailed(j, e)
    /\ UNCHANGED <<sysvars, dl, ex, ck, ru, mg, qp>>

NextRace ==
    \E j \in RaceJobs :
        \/ race_probe(j)
        \/ race_check(j)
        \/ race_choose(j)
        \/ race_request(j)
        \/ race_open(j)
        \/ race_chunk(j)
        \/ race_end(j)
        \/ race_fail(j)

SpecRace == InitRace /\ [][NextRace]_vars

(* ============================ the cache race ========================== *)

\* Both calls have the same file open and are writing it.
BothWriting ==
    /\ \A j \in RaceJobs : rc.job[j].pc = "stream"
    /\ rc.job[1].handle = rc.job[2].handle

\* C32: nothing serializes two jobs on one zip path: a call that has its
\* response opens the file whatever the other call is doing, also while
\* the other call is writing it, and writes its next chunk whatever the
\* other call has written.
C32_NoSerialization ==
    \A j \in RaceJobs :
        /\ rc.job[j].pc = "open" => ENABLED race_open(j)
        /\ (rc.job[j].pc = "stream" /\ rc.job[j].body # <<>>) => ENABLED race_chunk(j)

\* One call took the fresh path and the other resumed from the first
\* one's partial file while the first was writing it; both wrote the same
\* file, and both have returned Ok with a file at the zip path that is
\* longer than the remote resource.
C32_Witness ==
    \E j, k \in RaceJobs :
        /\ rc.shared
        /\ rc.job[j].path = "fresh" /\ rc.job[k].path = "resume"
        /\ rc.job[j].result = "ok" /\ rc.job[k].result = "ok"
        /\ rc.job[j].handle = rc.job[k].handle /\ rc.zip = rc.job[j].handle
        /\ Len(rc.files[rc.zip]) > Len(rc.remote)

\* Both calls are writing the file at the same time.
C32_BothWritingReached ==
    /\ BothWriting
    /\ rc.job[1].path = "fresh" /\ rc.job[2].path = "resume"
    /\ rc.job[1].body # <<>> /\ rc.job[2].body # <<>>

====
